---- MODULE Spec2Model ----
(***************************************************************************)
(* State-machine model of the App component (src/App.tsx) and of the code  *)
(* view it mounts (CodeDisplay / FileExplorer, src/unnamed/part_009).      *)
(*                                                                         *)
(* React state is the model's state.  A handler runs atomically up to its  *)
(* next await; the re-render and the effects that a state update triggers  *)
(* are part of the step that made the update.  Everything that survives an *)
(* await (the pending generation, the animate() loop, the runAsync() of    *)
(* handleAnimationComplete, the auto-save timer) is a task record holding  *)
(* the values its closure captured when it was created.                    *)
(*                                                                         *)
(* Paths and contents are sequences of one-character strings; "/" is the   *)
(* separator.  <<"i">> stands for index.html.                              *)
(***************************************************************************)
EXTENDS Integers, Sequences, FiniteSets, TLC

\* ---------------------------------------------------------------- bounds
MaxClock == 3
MaxGen == 2
MaxAnim == 2
MaxUrls == 6
MaxTreeFiles == 2
MaxDiscuss == 2

\* ------------------------------------------------------------- constants
\* undefined / null is the empty sequence, a present value v is <<v>>
None == <<>>
Some(v) == <<v>>
IsSome(o) == o # <<>>
Val(o) == o[1]
NoProject == "null"
ProjIds == {"A", "B"}
IndexHtml == <<"i">>
StyleCss == <<"s">>
ManualPrompt == <<"Manual code edit">>
AiEditPrompt == <<"AI edit">>
Prompts == {<<"p1">>}
InitialPrompt == <<"p0">>
AssetsGitkeep == <<"a", "/", "g">>

\* The file lists the generation service may answer with (result.files).
MainTarget ==
    << [path |-> IndexHtml, content |-> <<"b">>],
       [path |-> StyleCss, content |-> <<>>] >>
TargetSets == { << [path |-> IndexHtml, content |-> <<"a">>] >>, MainTarget }

\* A property that an object of the parsed response lacks reads as
\* undefined; as an object key it is the name 'undefined'.
Undefined == <<"undefined">>

\* What the user may type into the editor (the editor's new full content).
TypedContents == { <<"u">> }

VARIABLES
    projects,            \* App: projects, as id -> Some(Project) or None
    activeProjectId,     \* App: activeProjectId
    activeTab,           \* App: activeTab
    generationStatus,    \* App: generationStatus.stage
    aiTargetFiles,       \* App: aiTargetFiles
    error,               \* App: error notice ("" when null)
    apiKey,              \* session.user.user_metadata.gemini_api_key is set
    pendingAction,       \* App: pendingAction
    isSettingsModalOpen, \* App: isSettingsModalOpen
    wizardData,          \* App: wizardData is set
    now,                 \* Date.now(), as a logical clock
    db,                  \* the rows of the 'projects' table, as projects
    fetching,            \* a select of fetchProjects is awaited
    gens,                \* handleGenerate actions suspended at an await
    anims,               \* animate() loops of CodeDisplay that are alive
    animationRuns,       \* how many times the animation effect called animate()
    commits,             \* runAsync() of handleAnimationComplete, suspended
    mounted,             \* CodeDisplay is mounted
    openFilePaths,       \* CodeDisplay: openFilePaths
    activeFilePath,      \* CodeDisplay: activeFilePath
    saveStatus,          \* CodeDisplay: saveStatus
    editorContentRef,    \* CodeDisplay: editorContentRef.current
    animationFrameRef,   \* CodeDisplay: animationFrameRef.current (slot)
    autoSaveTimer,       \* CodeDisplay: the 2 s timer of the auto-save effect
    savedTimers,         \* CodeDisplay: pending setTimeout(.. 'saved', 500)
    aiSession,           \* id of the project whose generation produced the
                         \* value of aiTargetFiles ("null" when unset)
    lastOp,              \* <<handler, argument>> of the last step when it was
                         \* "restore", "undo" or "redo", <<"-", 0>> otherwise
    isSelectionModeActive, \* App: isSelectionModeActive
    selectedElement,     \* App: selectedElement
    previewMounted,      \* a LivePreview instance is mounted
    previewFiles,        \* LivePreview: the files prop
    activePath,          \* LivePreview: activePath
    srcDoc,              \* LivePreview: the srcDoc memo
    blobUrl,             \* LivePreview: the blobUrl memo (the iframe's src)
    createdUrls,         \* how many URLs URL.createObjectURL has returned
    revokedUrls,         \* the URLs passed to URL.revokeObjectURL
    lastNavigate,        \* path of the last navigate message since the
                         \* files prop changed (None when there was none)
    hostAccess,          \* origin-bound state of the host application that
                         \* scripts of previewed documents have reached
    isDiscussModeActive, \* App: isDiscussModeActive
    discussions,         \* discuss actions of handleGenerate at an await
    discussionHistory    \* number of messages in each project's
                         \* discussionHistory

appVars == <<projects, activeProjectId, activeTab, generationStatus,
             aiTargetFiles, error, apiKey, pendingAction,
             isSettingsModalOpen, wizardData, now, db, fetching>>
taskVars == <<gens, anims, animationRuns, commits>>
cdVars == <<mounted, openFilePaths, activeFilePath, saveStatus,
            editorContentRef, animationFrameRef, autoSaveTimer, savedTimers>>
ghostVars == <<aiSession, lastOp>>
selVars == <<isSelectionModeActive, selectedElement>>
previewVars == <<previewMounted, previewFiles, activePath, srcDoc, blobUrl,
                 createdUrls, revokedUrls, lastNavigate, hostAccess>>
discussVars == <<isDiscussModeActive, discussions, discussionHistory>>
sideVars == <<selVars, previewVars, discussVars>>
vars == <<appVars, taskVars, cdVars, ghostVars, sideVars>>

\* ------------------------------------------------------ sequence helpers
Min(a, b) == IF a < b THEN a ELSE b
Max(a, b) == IF a > b THEN a ELSE b

\* Array.prototype.slice(0, n)
Slice0(s, n) == SubSeq(s, 1, Min(Max(n, 0), Len(s)))

Includes(s, x) == \E k \in 1..Len(s) : s[k] = x

\* Array.prototype.indexOf, 0-based, -1 when absent
IndexOf(s, x) ==
    IF Includes(s, x) THEN (CHOOSE k \in 1..Len(s) :
                              s[k] = x /\ \A j \in 1..(k-1) : s[j] # x) - 1
    ELSE -1

RemoveAt(s, k) == SubSeq(s, 1, k-1) \o SubSeq(s, k+1, Len(s))

\* [...new Set([...prev, ...more])]
RECURSIVE UnionSeq(_, _)
UnionSeq(prev, more) ==
    IF more = <<>> THEN prev
    ELSE UnionSeq(IF Includes(prev, Head(more)) THEN prev
                  ELSE Append(prev, Head(more)), Tail(more))

PathsOf(files) == [k \in 1..Len(files) |-> files[k].path]
HasPath(files, p) == \E k \in 1..Len(files) : files[k].path = p

\* files.find(f => f.path === p): the first match
FindFile(files, p) ==
    files[CHOOSE k \in 1..Len(files) :
            files[k].path = p /\ \A j \in 1..(k-1) : files[j].path # p]

\* ------------------------------------------------------- history (App)
\* projects.find(p => p.id === activeProjectId)
ActiveProjectOf(ps, id) == IF id \in ProjIds THEN ps[id] ELSE None

activeProject == ActiveProjectOf(projects, activeProjectId)

\* activeProject?.codeHistory.history[currentIndex]
CurrentEntry(op) ==
    IF IsSome(op) /\ Val(op).currentIndex >= 0
                  /\ Val(op).currentIndex < Len(Val(op).history)
    THEN Some(Val(op).history[Val(op).currentIndex + 1]) ELSE None

\* currentFiles: ...?.files || []
FilesOf(op) == IF IsSome(CurrentEntry(op)) THEN Val(CurrentEntry(op)).files
               ELSE <<>>

\* identity of the array held by currentFiles (-1: the fresh [] fallback)
FidOf(op) == IF IsSome(CurrentEntry(op)) THEN Val(CurrentEntry(op)).fid ELSE -1

currentFiles == FilesOf(activeProject)
canUndo == IsSome(activeProject) /\ Val(activeProject).currentIndex > 0
canRedo == IsSome(activeProject)
           /\ Val(activeProject).currentIndex
                < Len(Val(activeProject).history) - 1

\* a push that sets currentIndex to newHistory.length
PushEntryOffByOne(p, e) ==
    LET newHistory == Append(Slice0(p.history, p.currentIndex + 1), e)
    IN  [p EXCEPT !.history = newHistory,
                  !.currentIndex = Len(newHistory)]

\* a push that keeps the entries after currentIndex
PushEntryNoSlice(p, e) ==
    LET newHistory == Append(p.history, e)
    IN  [p EXCEPT !.history = newHistory,
                  !.currentIndex = Len(newHistory) - 1]

\* const newHistory = history.slice(0, currentIndex + 1); newHistory.push(e);
\* codeHistory = { history: newHistory, currentIndex: newHistory.length - 1 }
PushEntry(p, e) ==
    LET newHistory == Append(Slice0(p.history, p.currentIndex + 1), e)
    IN  [p EXCEPT !.history = newHistory,
                  !.currentIndex = Len(newHistory) - 1]

\* setProjects(prev => prev.map(p => p.id === updated.id ? updated : p))
ReplaceProject(ps, updated) ==
    [id \in ProjIds |-> IF IsSome(ps[id]) /\ Val(ps[id]).id = updated.id
                        THEN Some(updated) ELSE ps[id]]

NewEntry(files, prompt, t) ==
    [files |-> files, fid |-> t, prompt |-> prompt, timestamp |-> t]

\* the entry handleRestoreVersion builds: it shares the files array
RestoredEntry(v, t) ==
    [files |-> v.files, fid |-> v.fid,
     prompt |-> <<"Restored from version created at", ToString(v.timestamp)>>,
     timestamp |-> t]

\* ----------------------------------------- CodeDisplay: render and effects
\* Object.fromEntries(new Map(files.map(f => [f.path, f.content])))
FileMap(files) ==
    [p \in {files[k].path : k \in 1..Len(files)} |->
        files[CHOOSE k \in 1..Len(files) :
                files[k].path = p
                /\ \A j \in (k+1)..Len(files) : files[j].path # p].content]

\* editorContentRef.current[path] = content
SetContent(m, path, content) ==
    [p \in (DOMAIN m) \cup {path} |-> IF p = path THEN content ELSE m[p]]

NoAnims == [s \in 1..MaxAnim |-> None]

\* The state of a CodeDisplay instance right after useState/useRef ran.
FreshCodeDisplay ==
    [mounted |-> FALSE, openFilePaths |-> <<>>, activeFilePath |-> None,
     saveStatus |-> "saved", editorContentRef |-> FileMap(<<>>),
     animationFrameRef |-> 0, autoSaveTimer |-> None, savedTimers |-> 0,
     anims |-> NoAnims, animationRuns |-> 0, stage |-> "idle",
     session |-> NoProject, overflow |-> FALSE]

\* The CodeDisplay state, the animate() loops, the stage and the session
\* that owns aiTargetFiles, as one record that the effects below transform.
CurW ==
    [mounted |-> mounted, openFilePaths |-> openFilePaths,
     activeFilePath |-> activeFilePath, saveStatus |-> saveStatus,
     editorContentRef |-> editorContentRef,
     animationFrameRef |-> animationFrameRef,
     autoSaveTimer |-> autoSaveTimer, savedTimers |-> savedTimers,
     anims |-> anims, animationRuns |-> animationRuns,
     stage |-> generationStatus, session |-> aiSession, overflow |-> FALSE]

\* animate(): setOpenFilePaths(union), then the first loop iteration up to
\* the requestAnimationFrame inside typeContent.  cb is the activeProject
\* that the onAnimationComplete of this render closed over.  The loop is
\* named by the number of its run; early and origin are history variables:
\* the effect was cleaned up before the loop had typed every file, and the
\* project the target was generated for.
StartAnimation(w, target, cb) ==
    IF w.animationRuns >= MaxAnim THEN [w EXCEPT !.overflow = TRUE]
    ELSE LET s == w.animationRuns + 1
         IN  IF target[1].content = Undefined
             THEN \* to.length throws inside typeContent: animate() ends
                  [w EXCEPT
                     !.openFilePaths = UnionSeq(@, PathsOf(target)),
                     !.stage = "editing",
                     !.activeFilePath = Some(target[1].path),
                     !.animationRuns = s]
             ELSE
             [w EXCEPT
                !.openFilePaths = UnionSeq(@, PathsOf(target)),
                !.stage = "editing",
                !.activeFilePath = Some(target[1].path),
                !.anims[s] = Some([target |-> target, i |-> 1, typed |-> 0,
                                   phase |-> "frame", cb |-> cb,
                                   orphan |-> FALSE, early |-> FALSE,
                                   origin |-> w.session]),
                !.animationRuns = s,
                !.animationFrameRef = s]

\* the loop t has typed every file of its target
Finished(t) == t.i = Len(t.target) /\ t.phase = "timeout"

\* cleanup of the animation effect: cancelAnimationFrame(ref.current).
\* The loop whose frame is cancelled never resumes; every other loop of
\* the component goes on.
CancelFrame(w) ==
    LET s == w.animationFrameRef
        hit(x) == x = s /\ Val(w.anims[x]).phase = "frame"
    IN  [w EXCEPT !.anims =
           [x \in 1..MaxAnim |->
              IF w.anims[x] = None \/ Val(w.anims[x]).orphan THEN w.anims[x]
              ELSE IF hit(x) THEN None
              ELSE Some([Val(w.anims[x]) EXCEPT
                           !.early = @ \/ ~Finished(Val(w.anims[x]))])]]

\* handleCloseTab(path, true), the part before the isDeletion test
CloseTab(w, path) ==
    LET updatedOpenPaths == SelectSeq(w.openFilePaths, LAMBDA p : p # path)
        closingIndex == IndexOf(w.openFilePaths, path)
    IN  [w EXCEPT
           !.openFilePaths = updatedOpenPaths,
           !.activeFilePath =
               IF w.activeFilePath = Some(path)
               THEN IF Len(updatedOpenPaths) > 0
                    THEN Some(updatedOpenPaths[Max(0, closingIndex - 1) + 1])
                    ELSE None
               ELSE @]

\* the state-syncing effect, deps [files]
EffSyncFiles(w, files) ==
    LET w1 == [w EXCEPT !.editorContentRef = FileMap(files)]
        w2 == IF IsSome(w.activeFilePath)
                 /\ ~HasPath(files, Val(w.activeFilePath))
              THEN CloseTab(w1, Val(w.activeFilePath)) ELSE w1
    IN  [w2 EXCEPT !.openFilePaths =
                      SelectSeq(@, LAMBDA p : HasPath(files, p))]

\* the effect that opens index.html when no tab is open
EffAutoOpen(w, files) ==
    IF Len(files) > 0 /\ Len(w.openFilePaths) = 0
    THEN LET p == IF HasPath(files, IndexHtml) THEN IndexHtml
                  ELSE files[1].path
         IN  [w EXCEPT !.openFilePaths = <<p>>, !.activeFilePath = Some(p)]
    ELSE w

Orphaned(an) ==
    [s \in 1..MaxAnim |->
        IF IsSome(an[s]) THEN Some([Val(an[s]) EXCEPT !.orphan = TRUE])
        ELSE None]

\* unmount: the effect cleanups run (cancelAnimationFrame, clearTimeout); a
\* loop waiting in setTimeout(resolve, 50) goes on without the component.
Unmount(w) ==
    LET c == CancelFrame(w)
    IN  [FreshCodeDisplay EXCEPT !.anims = Orphaned(c.anims),
                                 !.animationRuns = w.animationRuns,
                                 !.stage = w.stage,
                                 !.session = w.session,
                                 !.overflow = w.overflow]

\* mount: every effect runs once, in the order of declaration
Mount(w, files, ai, cb) ==
    LET w0 == [FreshCodeDisplay EXCEPT !.mounted = TRUE, !.anims = w.anims,
                                       !.animationRuns = w.animationRuns,
                                       !.stage = w.stage,
                                       !.session = w.session,
                                       !.overflow = w.overflow]
        w1 == EffAutoOpen(EffSyncFiles(w0, files), files)
        w2 == IF IsSome(ai) THEN StartAnimation(w1, Val(ai), cb) ELSE w1
    IN  EffAutoOpen(w2, files)

\* re-render of a mounted CodeDisplay: the effects whose deps changed
Update(w, files, filesChanged, ai, cb, animDepsChanged) ==
    LET w1 == IF filesChanged THEN EffSyncFiles(w, files) ELSE w
        w2 == IF filesChanged /\ Len(w.openFilePaths) = 0
              THEN EffAutoOpen(w1, files) ELSE w1
        w3 == IF animDepsChanged
              THEN IF IsSome(ai)
                   THEN StartAnimation(CancelFrame(w2), Val(ai), cb)
                   ELSE CancelFrame(w2)
              ELSE w2
    IN  EffAutoOpen(w3, files)

\* App renders <CodeDisplay> only in the main layout with activeTab 'code'
MountedFor(ps, pid, tab, wiz) ==
    tab = "code" /\ ~wiz /\ IsSome(ActiveProjectOf(ps, pid))

Rerender(w, nowMounted, preFid, postProj, ai, projChanged, aiChanged) ==
    IF ~w.mounted /\ ~nowMounted THEN w
    ELSE IF w.mounted /\ ~nowMounted THEN Unmount(w)
    ELSE IF ~w.mounted /\ nowMounted
         THEN Mount(w, FilesOf(postProj), ai, Val(postProj))
    ELSE Update(w, FilesOf(postProj), preFid # FidOf(postProj), ai,
                Val(postProj), projChanged \/ aiChanged)

SetCodeDisplay(w) ==
    /\ ~w.overflow
    /\ mounted' = w.mounted
    /\ openFilePaths' = w.openFilePaths
    /\ activeFilePath' = w.activeFilePath
    /\ saveStatus' = w.saveStatus
    /\ editorContentRef' = w.editorContentRef
    /\ animationFrameRef' = w.animationFrameRef
    /\ autoSaveTimer' = w.autoSaveTimer
    /\ savedTimers' = w.savedTimers
    /\ anims' = w.anims
    /\ animationRuns' = w.animationRuns
    /\ generationStatus' = w.stage
    /\ aiSession' = w.session

\* One App state update and the render that follows it.  w carries the
\* CodeDisplay state and stage the handler leaves; replaced is the set of
\* project ids whose object the handler replaced in projects.
Render(w, psN, pidN, tabN, aiN, wizN, replaced, aiChanged) ==
    LET postProj == ActiveProjectOf(psN, pidN)
        projChanged == pidN # activeProjectId \/ pidN \in replaced
    IN  /\ SetCodeDisplay(Rerender(w, MountedFor(psN, pidN, tabN, wizN),
                                   FidOf(activeProject), postProj, aiN,
                                   projChanged, aiChanged))
        /\ projects' = psN
        /\ activeProjectId' = pidN
        /\ activeTab' = tabN
        /\ aiTargetFiles' = aiN
        /\ wizardData' = wizN

\* --------------------------------------------------------------- Init
InitialFiles == << [path |-> IndexHtml, content |-> <<>>] >>

\* project A with one history entry holding files, and no other project
InitProjects(files) ==
    [id \in ProjIds |->
        IF id = "A"
        THEN Some([id |-> "A", currentIndex |-> 0,
                   history |-> << NewEntry(files, InitialPrompt, 0) >>])
        ELSE None]

\* the rest of the state after construction
InitRest ==
    /\ activeProjectId = "A"
    /\ activeTab = "preview"
    /\ generationStatus = "idle"
    /\ aiTargetFiles = None
    /\ error = ""
    /\ apiKey \in BOOLEAN
    /\ pendingAction = None
    /\ isSettingsModalOpen = FALSE
    /\ wizardData = FALSE
    /\ now = 1
    /\ db = projects
    /\ fetching = FALSE
    /\ gens = <<>>
    /\ anims = NoAnims
    /\ animationRuns = 0
    /\ aiSession = NoProject
    /\ commits = <<>>
    /\ mounted = FALSE
    /\ openFilePaths = <<>>
    /\ activeFilePath = None
    /\ saveStatus = "saved"
    /\ editorContentRef = FileMap(<<>>)
    /\ animationFrameRef = 0
    /\ autoSaveTimer = None
    /\ savedTimers = 0
    /\ lastOp = <<"-", 0>>
    /\ isSelectionModeActive = FALSE
    /\ selectedElement = None
    /\ previewMounted = FALSE
    /\ previewFiles = <<>>
    /\ activePath = IndexHtml
    /\ srcDoc = <<>>
    /\ blobUrl = None
    /\ createdUrls = 0
    /\ revokedUrls = {}
    /\ lastNavigate = None
    /\ hostAccess = {}
    /\ isDiscussModeActive = FALSE
    /\ discussions = <<>>
    /\ discussionHistory = [id \in ProjIds |-> 0]

Init == projects = InitProjects(InitialFiles) /\ InitRest

\* the main layout is rendered and no modal covers it
MainUI == ~wizardData /\ IsSome(activeProject)
UserCan == MainUI /\ ~isSettingsModalOpen

\* ------------------------------------------------- history handlers (App)
\* an updateProjectInDb that only logs a failed write to the console
DbResultSwallowed(ok) == error

\* updateProjectInDb: the write either succeeds or sets the error notice
DbResult(ok) == IF ok THEN error ELSE "save"

\* the row of the project after .update(...).eq('id', project.id)
DbWrite(project, ok) ==
    IF ok /\ IsSome(db[project.id])
    THEN [db EXCEPT ![project.id] =
            Some([Val(@) EXCEPT !.history = project.history,
                                !.currentIndex = project.currentIndex])]
    ELSE db

\* handleFilesChange as called through a closure that captured project cp
FilesChange(w, cp, newFiles, ok) ==
    LET updatedProject == PushEntry(cp, NewEntry(newFiles, ManualPrompt, now))
    IN  /\ now < MaxClock
        /\ now' = now + 1
        /\ error' = DbResult(ok)
        /\ db' = DbWrite(updatedProject, ok)
        /\ Render(w, ReplaceProject(projects, updatedProject),
                  activeProjectId, activeTab, aiTargetFiles, wizardData,
                  {updatedProject.id}, FALSE)
        /\ UNCHANGED <<apiKey, pendingAction, isSettingsModalOpen, gens,
                       commits, fetching>>

handleRestoreVersion(indexToRestore, ok) ==
    /\ UserCan
    /\ lastOp' = <<"restore", indexToRestore>>
    /\ UNCHANGED sideVars
    /\ LET ap == Val(activeProject)
       IN  IF indexToRestore + 1 \in 1..Len(ap.history)
           THEN LET versionToRestore == ap.history[indexToRestore + 1]
                    updatedProject ==
                        PushEntry(ap, RestoredEntry(versionToRestore, now))
                IN  /\ now < MaxClock
                    /\ now' = now + 1
                    /\ error' = DbResult(ok)
                    /\ db' = DbWrite(updatedProject, ok)
                    /\ Render(CurW, ReplaceProject(projects, updatedProject),
                              activeProjectId, activeTab, aiTargetFiles,
                              wizardData, {ap.id}, FALSE)
                    /\ UNCHANGED <<apiKey, pendingAction, isSettingsModalOpen,
                                   gens, commits, fetching>>
           ELSE /\ ok
                /\ UNCHANGED <<appVars, taskVars, cdVars, aiSession>>

\* an index update that also drops the entries after the new index
updateCurrentIndexTruncating(newIndex, ok) ==
    LET ap == Val(activeProject)
        updatedProject == [ap EXCEPT !.currentIndex = newIndex,
                                     !.history = Slice0(@, newIndex + 1)]
    IN  /\ error' = DbResult(ok)
        /\ db' = DbWrite(updatedProject, ok)
        /\ Render(CurW, ReplaceProject(projects, updatedProject),
                  activeProjectId, activeTab, aiTargetFiles, wizardData,
                  {ap.id}, FALSE)
        /\ UNCHANGED <<apiKey, pendingAction, isSettingsModalOpen, now, gens,
                       commits, fetching>>

updateCurrentIndex(newIndex, ok) ==
    LET ap == Val(activeProject)
        updatedProject == [ap EXCEPT !.currentIndex = newIndex]
    IN  /\ error' = DbResult(ok)
        /\ db' = DbWrite(updatedProject, ok)
        /\ Render(CurW, ReplaceProject(projects, updatedProject),
                  activeProjectId, activeTab, aiTargetFiles, wizardData,
                  {ap.id}, FALSE)
        /\ UNCHANGED <<apiKey, pendingAction, isSettingsModalOpen, now, gens,
                       commits, fetching>>

\* handleUndo / handleRedo are CodeDisplay's onUndo / onRedo props
handleUndo(ok) ==
    /\ UserCan /\ mounted
    /\ lastOp' = <<"undo", 0>>
    /\ UNCHANGED sideVars
    /\ IF canUndo
       THEN updateCurrentIndex(Val(activeProject).currentIndex - 1, ok)
       ELSE ok /\ UNCHANGED <<appVars, taskVars, cdVars, aiSession>>

handleRedo(ok) ==
    /\ UserCan /\ mounted
    /\ lastOp' = <<"redo", 0>>
    /\ UNCHANGED sideVars
    /\ IF canRedo
       THEN updateCurrentIndex(Val(activeProject).currentIndex + 1, ok)
       ELSE ok /\ UNCHANGED <<appVars, taskVars, cdVars, aiSession>>

\* ------------------------------------------------------------ navigation
handleSelectProject(projectId) ==
    /\ UserCan
    /\ IsSome(projects[projectId])
    /\ lastOp' = <<"-", 0>>
    /\ selectedElement' = None
    /\ isSelectionModeActive' = FALSE
    /\ isDiscussModeActive' = FALSE
    /\ UNCHANGED <<previewVars, discussions, discussionHistory>>
    /\ Render(CurW, projects, projectId, activeTab, aiTargetFiles, wizardData,
              {}, FALSE)
    /\ UNCHANGED <<error, apiKey, pendingAction, isSettingsModalOpen, now,
                   db, fetching, gens, commits>>

handleCreateNewApp ==
    /\ UserCan
    /\ lastOp' = <<"-", 0>>
    /\ UNCHANGED sideVars
    /\ Render(CurW, projects, NoProject, activeTab, aiTargetFiles, wizardData,
              {}, FALSE)
    /\ UNCHANGED <<error, apiKey, pendingAction, isSettingsModalOpen, now,
                   db, fetching, gens, commits>>

\* the Preview / Code buttons
setActiveTab(tab) ==
    /\ UserCan
    /\ tab # activeTab
    /\ lastOp' = <<"-", 0>>
    /\ UNCHANGED sideVars
    /\ Render(CurW, projects, activeProjectId, tab, aiTargetFiles, wizardData,
              {}, FALSE)
    /\ UNCHANGED <<error, apiKey, pendingAction, isSettingsModalOpen, now,
                   db, fetching, gens, commits>>

\* WelcomeScreen's submit: shown when no project is active, enabled when
\* generationStatus is idle
handleStartWizard ==
    /\ activeProjectId = NoProject /\ ~wizardData /\ ~isSettingsModalOpen
    /\ generationStatus = "idle"
    /\ lastOp' = <<"-", 0>>
    /\ UNCHANGED sideVars
    /\ wizardData' = TRUE
    /\ UNCHANGED <<projects, activeProjectId, activeTab, generationStatus,
                   aiTargetFiles, error, apiKey, pendingAction,
                   isSettingsModalOpen, now, db, fetching, taskVars, cdVars,
                   aiSession>>

\* the action of handleCreateProject, from generateWebApp to the finally
CreateAction(files, ok) ==
    LET finalPrompt == CHOOSE q \in Prompts : TRUE
        free == {id \in ProjIds : projects[id] = None}
        newId == CHOOSE id \in free : TRUE
        newProject == [id |-> newId, currentIndex |-> 0,
                       history |-> << NewEntry(files, finalPrompt, now) >>]
    IN  IF ok
        THEN /\ free # {}
             /\ now < MaxClock
             /\ now' = now + 1
             /\ error' = ""
             /\ db' = [db EXCEPT ![newId] = Some(newProject)]
             /\ Render(CurW, [projects EXCEPT ![newId] = Some(newProject)],
                       newId, "preview", aiTargetFiles, FALSE, {newId}, FALSE)
        ELSE /\ error' = "create"
             /\ now' = now
             /\ db' = db
             /\ Render(CurW, projects, activeProjectId, "preview",
                       aiTargetFiles, FALSE, {}, FALSE)

\* generateWebApp without currentFiles adds assets/.gitkeep when missing
WithAssets(files) ==
    IF \E k \in 1..Len(files) :
          Len(files[k].path) >= 2 /\ SubSeq(files[k].path, 1, 2) = <<"a", "/">>
    THEN files
    ELSE Append(files, [path |-> AssetsGitkeep, content |-> <<>>])

handleCreateProject(result, ok) ==
    /\ wizardData /\ ~isSettingsModalOpen
    /\ lastOp' = <<"-", 0>>
    /\ UNCHANGED sideVars
    /\ IF apiKey
       THEN /\ CreateAction(WithAssets(result), ok)
            /\ UNCHANGED <<apiKey, pendingAction, isSettingsModalOpen, gens,
                           commits, fetching>>
       ELSE /\ ok
            /\ pendingAction' = Some([kind |-> "create", prompt |-> <<>>,
                                      project |-> NoProject])
            /\ isSettingsModalOpen' = TRUE
            /\ UNCHANGED <<projects, activeProjectId, activeTab,
                           generationStatus, aiTargetFiles, error, apiKey,
                           wizardData, now, db, fetching, taskVars, cdVars,
                           aiSession>>

\* ------------------------------------------------------ handleGenerate
\* The action of handleGenerate (edit mode) up to its first await.
\* project is the id of the activeProject the action closed over;
\* superseded is a history variable: a later action started while this one
\* was waiting for the response.
GenerateAction(prompt, project, viaPending) ==
    /\ Len(gens) < MaxGen
    /\ error' = ""
    /\ generationStatus' = "thinking"
    /\ gens' = Append([k \in 1..Len(gens) |->
                         [gens[k] EXCEPT !.superseded =
                             @ \/ gens[k].pc = "generateWebApp"]],
                      [pc |-> "generateWebApp", prompt |-> prompt,
                       project |-> project, result |-> <<>>,
                       viaPending |-> viaPending, superseded |-> FALSE])

handleGenerate(prompt) ==
    /\ UserCan
    /\ generationStatus = "idle"
    /\ ~isDiscussModeActive
    /\ lastOp' = <<"-", 0>>
    /\ UNCHANGED sideVars
    /\ IF apiKey
       THEN /\ GenerateAction(prompt, activeProjectId, FALSE)
            /\ UNCHANGED <<projects, activeProjectId, activeTab, aiTargetFiles,
                           apiKey, pendingAction, isSettingsModalOpen,
                           wizardData, now, db, fetching, anims,
                           animationRuns, commits, cdVars, aiSession>>
       ELSE /\ pendingAction' = Some([kind |-> "generate", prompt |-> prompt,
                                      project |-> activeProjectId])
            /\ isSettingsModalOpen' = TRUE
            /\ UNCHANGED <<projects, activeProjectId, activeTab,
                           generationStatus, aiTargetFiles, error, apiKey,
                           wizardData, now, db, fetching, taskVars, cdVars,
                           aiSession>>

\* runAction's setPendingAction(null) once the awaited action returned
AfterAction(g) == IF g.viaPending THEN None ELSE pendingAction

\* generateWebApp resolved: stage 'editing', then the 1000 ms wait
generateResolved(k, result) ==
    /\ k \in 1..Len(gens) /\ gens[k].pc = "generateWebApp"
    /\ lastOp' = <<"-", 0>>
    /\ UNCHANGED sideVars
    /\ generationStatus' = "editing"
    /\ gens' = [gens EXCEPT ![k].pc = "wait1000", ![k].result = result]
    /\ UNCHANGED <<projects, activeProjectId, activeTab, aiTargetFiles, error,
                   apiKey, pendingAction, isSettingsModalOpen, wizardData,
                   now, db, fetching, anims, animationRuns, commits, cdVars,
                   aiSession>>

\* a catch block that only sets the error notice
generateRejectedOnlyNotice(k) ==
    /\ k \in 1..Len(gens) /\ gens[k].pc = "generateWebApp"
    /\ lastOp' = <<"-", 0>>
    /\ UNCHANGED sideVars
    /\ error' = "generate"
    /\ gens' = RemoveAt(gens, k)
    /\ pendingAction' = AfterAction(gens[k])
    /\ UNCHANGED <<projects, activeProjectId, activeTab, generationStatus,
                   aiTargetFiles, apiKey, isSettingsModalOpen, wizardData,
                   now, db, fetching, anims, animationRuns, commits, cdVars,
                   aiSession>>

\* generateWebApp threw: the catch block
generateRejected(k) ==
    /\ k \in 1..Len(gens) /\ gens[k].pc = "generateWebApp"
    /\ lastOp' = <<"-", 0>>
    /\ UNCHANGED sideVars
    /\ error' = "generate"
    /\ Render([CurW EXCEPT !.stage = "idle", !.session = NoProject],
              projects, activeProjectId, activeTab, None, wizardData, {},
              IsSome(aiTargetFiles))
    /\ gens' = RemoveAt(gens, k)
    /\ pendingAction' = AfterAction(gens[k])
    /\ UNCHANGED <<apiKey, isSettingsModalOpen, now, db, fetching, commits>>

\* generateWebApp in edit mode on the parsed response: it returns the
\* result when plan is truthy and files is an array, and throws otherwise
generateWebAppReturns(response) == response.plan /\ IsSome(response.files)

\* the awaited generateWebApp settles for a response of the service
generateAnswered(k, response) ==
    IF generateWebAppReturns(response)
    THEN generateResolved(k, Val(response.files))
    ELSE generateRejected(k)

\* the parsed responses: complete, without plan, without files, and with
\* an entry that lacks content or path
Responses ==
    { [plan |-> TRUE, files |-> Some(MainTarget)],
      [plan |-> FALSE, files |-> Some(MainTarget)],
      [plan |-> TRUE, files |-> None],
      [plan |-> TRUE,
       files |-> Some(<< [path |-> IndexHtml, content |-> Undefined] >>)],
      [plan |-> TRUE,
       files |-> Some(<< [path |-> IndexHtml, content |-> <<"b">>],
                         [path |-> StyleCss, content |-> Undefined] >>)],
      [plan |-> TRUE,
       files |-> Some(<< [path |-> Undefined, content |-> <<"b">>] >>)] }

\* after the wait: setActiveTab('code'); setAiTargetFiles(result.files)
applyResult(k) ==
    /\ k \in 1..Len(gens) /\ gens[k].pc = "wait1000"
    /\ lastOp' = <<"-", 0>>
    /\ UNCHANGED sideVars
    /\ Render([CurW EXCEPT !.session = gens[k].project], projects,
              activeProjectId, "code", Some(gens[k].result), wizardData, {},
              TRUE)
    /\ gens' = RemoveAt(gens, k)
    /\ pendingAction' = AfterAction(gens[k])
    /\ UNCHANGED <<error, apiKey, isSettingsModalOpen, now, db, fetching,
                   commits>>

\* ------------------------------------- handleGenerate in discuss mode
\* onToggleDiscussMode of the prompt panel
handleToggleDiscussMode ==
    /\ UserCan
    /\ lastOp' = <<"-", 0>>
    /\ isDiscussModeActive' = ~isDiscussModeActive
    /\ UNCHANGED <<appVars, taskVars, cdVars, aiSession, selVars, previewVars,
                   discussions, discussionHistory>>

\* handleGenerate with isDiscussModeActive and an API key, up to the await
\* of discussCode: the action keeps the activeProject of this render and
\* the length of its discussionHistory
handleGenerateDiscuss(prompt) ==
    /\ UserCan
    /\ generationStatus = "idle"
    /\ isDiscussModeActive /\ apiKey
    /\ Len(discussions) < MaxDiscuss
    /\ \A id \in ProjIds : discussionHistory[id] < 2 * MaxDiscuss
    /\ lastOp' = <<"-", 0>>
    /\ error' = ""
    /\ generationStatus' = "thinking"
    /\ discussions' = Append(discussions,
           [pc |-> "discussCode", activeProject |-> Val(activeProject),
            messages |-> discussionHistory[activeProjectId]])
    /\ UNCHANGED <<projects, activeProjectId, activeTab, aiTargetFiles,
                   apiKey, pendingAction, isSettingsModalOpen, wizardData,
                   now, db, fetching, taskVars, cdVars, aiSession, selVars,
                   previewVars, isDiscussModeActive, discussionHistory>>

\* discussCode answered: updatedProject = { ...activeProject } with the two
\* messages appended, setProjects(map), updateProjectInDb(updatedProject)
discussResolved(k, ok) ==
    /\ k \in 1..Len(discussions) /\ discussions[k].pc = "discussCode"
    /\ lastOp' = <<"discussResolved", k>>
    /\ LET updatedProject == discussions[k].activeProject
       IN  /\ discussionHistory' =
                [discussionHistory EXCEPT ![updatedProject.id] =
                    discussions[k].messages + 2]
           /\ error' = DbResult(ok)
           /\ db' = DbWrite(updatedProject, ok)
           /\ Render(CurW, ReplaceProject(projects, updatedProject),
                     activeProjectId, activeTab, aiTargetFiles, wizardData,
                     {updatedProject.id}, FALSE)
           /\ discussions' = [discussions EXCEPT ![k].pc = "finally"]
    /\ UNCHANGED <<apiKey, pendingAction, isSettingsModalOpen, now, fetching,
                   gens, commits, selVars, previewVars, isDiscussModeActive>>

\* discussCode threw: the catch block
discussRejected(k) ==
    /\ k \in 1..Len(discussions) /\ discussions[k].pc = "discussCode"
    /\ lastOp' = <<"-", 0>>
    /\ error' = "discuss"
    /\ discussions' = [discussions EXCEPT ![k].pc = "finally"]
    /\ UNCHANGED <<projects, activeProjectId, activeTab, generationStatus,
                   aiTargetFiles, apiKey, pendingAction, isSettingsModalOpen,
                   wizardData, now, db, fetching, taskVars, cdVars, aiSession,
                   selVars, previewVars, isDiscussModeActive,
                   discussionHistory>>

\* the finally block: stage 'idle'
discussFinally(k) ==
    /\ k \in 1..Len(discussions) /\ discussions[k].pc = "finally"
    /\ lastOp' = <<"-", 0>>
    /\ generationStatus' = "idle"
    /\ discussions' = RemoveAt(discussions, k)
    /\ UNCHANGED <<projects, activeProjectId, activeTab, aiTargetFiles, error,
                   apiKey, pendingAction, isSettingsModalOpen, wizardData,
                   now, db, fetching, taskVars, cdVars, aiSession, selVars,
                   previewVars, isDiscussModeActive, discussionHistory>>

\* ------------------------------------------------- CodeDisplay: animate()
Lookup(m, p) == IF p \in DOMAIN m THEN Some(m[p]) ELSE None

\* a frame callback that stores only the characters of this frame
animationFrameChunk(s) ==
    /\ IsSome(anims[s]) /\ Val(anims[s]).phase = "frame"
    /\ lastOp' = <<"-", 0>>
    /\ UNCHANGED sideVars
    /\ LET t == Val(anims[s])
           path == t.target[t.i].path
           to == t.target[t.i].content
           charsPerFrame == Max(1, Len(to) \div 200)
           typed == Min(t.typed + charsPerFrame, Len(to))
       IN  IF t.typed < Len(to)
           THEN /\ anims' = [anims EXCEPT ![s] = Some([t EXCEPT !.typed = typed])]
                /\ editorContentRef' =
                     IF t.orphan THEN editorContentRef
                     ELSE SetContent(editorContentRef, path, SubSeq(to, t.typed + 1, typed))
                /\ animationFrameRef' =
                     IF t.orphan THEN animationFrameRef ELSE s
           ELSE /\ anims' = [anims EXCEPT ![s] = Some([t EXCEPT !.phase = "timeout"])]
                /\ editorContentRef' =
                     IF t.orphan THEN editorContentRef
                     ELSE SetContent(editorContentRef, path, to)
                /\ animationFrameRef' = animationFrameRef
    /\ UNCHANGED <<appVars, gens, animationRuns, commits, mounted,
                   openFilePaths, activeFilePath, saveStatus, autoSaveTimer,
                   savedTimers, aiSession>>

\* one requestAnimationFrame callback of typeContent (`type`)
animationFrame(s) ==
    /\ IsSome(anims[s]) /\ Val(anims[s]).phase = "frame"
    /\ lastOp' = <<"-", 0>>
    /\ UNCHANGED sideVars
    /\ LET t == Val(anims[s])
           path == t.target[t.i].path
           to == t.target[t.i].content
           charsPerFrame == Max(1, Len(to) \div 200)
           typed == Min(t.typed + charsPerFrame, Len(to))
       IN  IF t.typed < Len(to)
           THEN /\ anims' = [anims EXCEPT ![s] = Some([t EXCEPT !.typed = typed])]
                /\ editorContentRef' =
                     IF t.orphan THEN editorContentRef
                     ELSE SetContent(editorContentRef, path, SubSeq(to, 1, typed))
                /\ animationFrameRef' =
                     IF t.orphan THEN animationFrameRef ELSE s
           ELSE /\ anims' = [anims EXCEPT ![s] = Some([t EXCEPT !.phase = "timeout"])]
                /\ editorContentRef' =
                     IF t.orphan THEN editorContentRef
                     ELSE SetContent(editorContentRef, path, to)
                /\ animationFrameRef' = animationFrameRef
    /\ UNCHANGED <<appVars, gens, animationRuns, commits, mounted,
                   openFilePaths, activeFilePath, saveStatus, autoSaveTimer,
                   savedTimers, aiSession>>

\* setTimeout(resolve, 50) fired: the loop of animate() goes on, to the next
\* file or to onAnimationComplete(aiTargetFiles)
animationResume(s) ==
    /\ IsSome(anims[s]) /\ Val(anims[s]).phase = "timeout"
    /\ lastOp' = <<"-", 0>>
    /\ UNCHANGED sideVars
    /\ LET t == Val(anims[s])
       IN  IF t.i < Len(t.target)
           THEN /\ generationStatus' = "editing"
                /\ anims' = [anims EXCEPT ![s] =
                       IF t.target[t.i + 1].content = Undefined
                       THEN None   \* to.length throws: animate() ends
                       ELSE Some([t EXCEPT !.i = t.i + 1, !.typed = 0,
                                           !.phase = "frame"])]
                /\ activeFilePath' =
                     IF t.orphan THEN activeFilePath
                     ELSE Some(t.target[t.i + 1].path)
                /\ animationFrameRef' =
                     IF t.orphan \/ t.target[t.i + 1].content = Undefined
                     THEN animationFrameRef ELSE s
                /\ commits' = commits
           ELSE \* handleAnimationComplete(animatedFiles), up to its await
                /\ generationStatus' = "applying"
                /\ anims' = [anims EXCEPT ![s] = None]
                /\ commits' = Append(commits,
                       [pc |-> "wait500", activeProject |-> t.cb,
                        animatedFiles |-> t.target, early |-> t.early,
                        origin |-> t.origin])
                /\ UNCHANGED <<activeFilePath, animationFrameRef>>
    /\ UNCHANGED <<projects, activeProjectId, activeTab, aiTargetFiles, error,
                   apiKey, pendingAction, isSettingsModalOpen, wizardData,
                   now, db, fetching, gens, animationRuns, mounted,
                   openFilePaths,
                   saveStatus, editorContentRef, autoSaveTimer, savedTimers,
                   aiSession>>

\* ------------------------------------- handleAnimationComplete: runAsync
\* after the first 500 ms: build the entry, setProjects, start the db write
commitPush(k) ==
    /\ k \in 1..Len(commits) /\ commits[k].pc = "wait500"
    /\ lastOp' = <<"-", 0>>
    /\ UNCHANGED sideVars
    /\ now < MaxClock
    /\ LET cp == commits[k].activeProject
           cur == CurrentEntry(Some(cp))
           lastPrompt == IF IsSome(cur) /\ Val(cur).prompt # <<>>
                         THEN Val(cur).prompt ELSE AiEditPrompt
           updatedProject ==
               PushEntry(cp, NewEntry(commits[k].animatedFiles, lastPrompt, now))
       IN  /\ Render(CurW, ReplaceProject(projects, updatedProject),
                     activeProjectId, activeTab, aiTargetFiles, wizardData,
                     {cp.id}, FALSE)
           /\ commits' = [commits EXCEPT ![k].pc = "updateProjectInDb",
                                         ![k].activeProject = updatedProject]
    /\ now' = now + 1
    /\ UNCHANGED <<error, apiKey, pendingAction, isSettingsModalOpen, db,
                   fetching, gens>>

\* updateProjectInDb returned: clear the target, stage 'reloading'
commitStored(k, ok) ==
    /\ k \in 1..Len(commits) /\ commits[k].pc = "updateProjectInDb"
    /\ lastOp' = <<"-", 0>>
    /\ selectedElement' = None
    /\ UNCHANGED <<isSelectionModeActive, previewVars, discussVars>>
    /\ error' = DbResult(ok)
    /\ db' = DbWrite(commits[k].activeProject, ok)
    /\ Render([CurW EXCEPT !.stage = "reloading", !.session = NoProject],
              projects, activeProjectId, activeTab, None, wizardData, {},
              IsSome(aiTargetFiles))
    /\ commits' = [commits EXCEPT ![k].pc = "reload"]
    /\ UNCHANGED <<apiKey, pendingAction, isSettingsModalOpen, now, fetching,
                   gens>>

\* after the second 500 ms: setActiveTab('preview'), reload
commitReload(k) ==
    /\ k \in 1..Len(commits) /\ commits[k].pc = "reload"
    /\ lastOp' = <<"-", 0>>
    /\ UNCHANGED sideVars
    /\ Render(CurW, projects, activeProjectId, "preview", aiTargetFiles,
              wizardData, {}, FALSE)
    /\ commits' = [commits EXCEPT ![k].pc = "settle"]
    /\ UNCHANGED <<error, apiKey, pendingAction, isSettingsModalOpen, now, db,
                   fetching, gens>>

\* after the third 500 ms: stage 'idle'
commitIdle(k) ==
    /\ k \in 1..Len(commits) /\ commits[k].pc = "settle"
    /\ lastOp' = <<"-", 0>>
    /\ UNCHANGED sideVars
    /\ generationStatus' = "idle"
    /\ commits' = RemoveAt(commits, k)
    /\ UNCHANGED <<projects, activeProjectId, activeTab, aiTargetFiles, error,
                   apiKey, pendingAction, isSettingsModalOpen, wizardData,
                   now, db, fetching, gens, anims, animationRuns, cdVars,
                   aiSession>>

\* ------------------------------------------------- API key, pendingAction
\* the effect on [session, pendingAction]: runAction()
RunPendingAction(result, ok) ==
    IF pendingAction # None /\ Val(pendingAction).kind = "generate"
    THEN /\ ok
         /\ GenerateAction(Val(pendingAction).prompt,
                           Val(pendingAction).project, TRUE)
         /\ isSettingsModalOpen' = FALSE
         /\ UNCHANGED <<projects, activeProjectId, activeTab, aiTargetFiles,
                        pendingAction, wizardData, now, db, anims,
                        animationRuns, commits, cdVars, aiSession>>
    ELSE /\ CreateAction(WithAssets(result), ok)
         /\ isSettingsModalOpen' = FALSE
         /\ pendingAction' = None
         /\ UNCHANGED <<gens, commits>>

\* setSession(session) with a new session object: the effects on [session]
\* run, fetchProjects and, with a pending action and a key, runAction()
SessionChanged(result, ok) ==
    /\ fetching' = TRUE
    /\ IF IsSome(pendingAction) /\ apiKey'
       THEN RunPendingAction(result, ok)
       ELSE UNCHANGED <<projects, activeProjectId, activeTab,
                        generationStatus, aiTargetFiles, error,
                        pendingAction, isSettingsModalOpen, wizardData, now,
                        db, taskVars, cdVars, aiSession>>

\* handleSaveApiKey succeeded; onAuthStateChange delivers the new session
handleSaveApiKey(result, ok) ==
    /\ isSettingsModalOpen
    /\ lastOp' = <<"-", 0>>
    /\ UNCHANGED sideVars
    /\ apiKey' = TRUE
    /\ SessionChanged(result, ok)

\* onAuthStateChange with a new session object (token refresh, focus)
onAuthStateChange(result, ok) ==
    /\ lastOp' = <<"-", 0>>
    /\ UNCHANGED sideVars
    /\ apiKey' = apiKey
    /\ SessionChanged(result, ok)

\* the select of fetchProjects returned: setProjects(fetchedProjects), every
\* project and every files array is a new object
fetchProjectsResolved(ok) ==
    /\ fetching
    /\ lastOp' = <<"-", 0>>
    /\ UNCHANGED sideVars
    /\ fetching' = FALSE
    /\ IF ok
       THEN /\ SetCodeDisplay(
                  Rerender(CurW,
                           MountedFor(db, activeProjectId, activeTab,
                                      wizardData),
                           -2, ActiveProjectOf(db, activeProjectId),
                           aiTargetFiles, TRUE, FALSE))
            /\ projects' = db
            /\ UNCHANGED <<activeProjectId, activeTab, aiTargetFiles, error,
                           apiKey, pendingAction, isSettingsModalOpen,
                           wizardData, now, db, gens, commits>>
       ELSE /\ error' = "load"
            /\ UNCHANGED <<projects, activeProjectId, activeTab,
                           generationStatus, aiTargetFiles, apiKey,
                           pendingAction, isSettingsModalOpen, wizardData,
                           now, db, taskVars, cdVars, aiSession>>

\* ----------------------------------------------- CodeDisplay: the editor
\* the closure of handleManualSave in the current render
SaveClosure ==
    [files |-> currentFiles, activeProject |-> Val(activeProject),
     aiTargetFiles |-> aiTargetFiles]

\* handleManualSave, run with the props its closure c captured
ManualSave(w, c, ok) ==
    IF IsSome(c.aiTargetFiles)
    THEN /\ SetCodeDisplay(w)
         /\ UNCHANGED <<projects, activeProjectId, activeTab, aiTargetFiles,
                        error, apiKey, pendingAction, isSettingsModalOpen,
                        wizardData, now, db, fetching, gens, commits>>
    ELSE LET updatedFiles ==
               [k \in 1..Len(c.files) |->
                   [c.files[k] EXCEPT !.content =
                       IF c.files[k].path \in DOMAIN w.editorContentRef
                       THEN w.editorContentRef[c.files[k].path] ELSE @]]
         IN  FilesChange([w EXCEPT !.saveStatus = "saving",
                                   !.autoSaveTimer = None,
                                   !.savedTimers = @ + 1],
                         c.activeProject, updatedFiles, ok)

\* the Editor's onChange
handleCodeChange(newContent) ==
    /\ UserCan /\ mounted
    /\ IsSome(activeFilePath) /\ HasPath(currentFiles, Val(activeFilePath))
    /\ lastOp' = <<"-", 0>>
    /\ UNCHANGED sideVars
    /\ IF IsSome(aiTargetFiles)
          \/ Lookup(editorContentRef, Val(activeFilePath)) = Some(newContent)
       THEN UNCHANGED <<appVars, taskVars, cdVars, aiSession>>
       ELSE /\ editorContentRef' =
                 SetContent(editorContentRef, Val(activeFilePath), newContent)
            /\ saveStatus' = "unsaved"
            \* the auto-save effect runs when saveStatus becomes 'unsaved'
            /\ autoSaveTimer' = IF saveStatus = "unsaved" THEN autoSaveTimer
                                ELSE Some(SaveClosure)
            /\ UNCHANGED <<appVars, taskVars, mounted, openFilePaths,
                           activeFilePath, animationFrameRef, savedTimers,
                           aiSession>>

\* the 2 s timer of the auto-save effect fired
autoSave(ok) ==
    /\ mounted /\ IsSome(autoSaveTimer)
    /\ lastOp' = <<"-", 0>>
    /\ UNCHANGED sideVars
    /\ ManualSave(CurW, Val(autoSaveTimer), ok)

\* setTimeout(() => setSaveStatus('saved'), 500) fired
savedTimeout ==
    /\ mounted /\ savedTimers > 0
    /\ lastOp' = <<"-", 0>>
    /\ UNCHANGED sideVars
    /\ saveStatus' = "saved"
    /\ autoSaveTimer' = None
    /\ savedTimers' = savedTimers - 1
    /\ UNCHANGED <<appVars, taskVars, mounted, openFilePaths, activeFilePath,
                   editorContentRef, animationFrameRef, aiSession>>

\* the close button of a tab: handleCloseTab(path)
handleCloseTab(path, ok) ==
    /\ UserCan /\ mounted
    /\ aiTargetFiles = None
    /\ Includes(openFilePaths, path)
    /\ lastOp' = <<"-", 0>>
    /\ UNCHANGED sideVars
    /\ LET w == CloseTab(CurW, path)
           saved == IF HasPath(currentFiles, path)
                    THEN Some(FindFile(currentFiles, path).content) ELSE None
       IN  IF Lookup(editorContentRef, path) # saved
           THEN ManualSave(w, SaveClosure, ok)
           ELSE /\ ok
                /\ SetCodeDisplay(EffAutoOpen(w, currentFiles))
                /\ UNCHANGED <<projects, activeProjectId, activeTab,
                               aiTargetFiles, error, apiKey, pendingAction,
                               isSettingsModalOpen, wizardData, now, db,
                               fetching, gens, commits>>

\* --------------------------------------------------------- FileExplorer
StartsWith(s, pre) == Len(s) >= Len(pre) /\ SubSeq(s, 1, Len(pre)) = pre

\* String.prototype.split('/')
RECURSIVE Split(_)
Split(s) ==
    IF ~Includes(s, "/") THEN <<s>>
    ELSE LET k == IndexOf(s, "/") + 1
         IN  <<SubSeq(s, 1, k - 1)>> \o Split(SubSeq(s, k + 1, Len(s)))

\* Array.prototype.join('/')
RECURSIVE Join(_)
Join(parts) ==
    IF parts = <<>> THEN <<>>
    ELSE IF Len(parts) = 1 THEN parts[1]
    ELSE parts[1] \o <<"/">> \o Join(Tail(parts))

\* String.prototype.trim
RECURSIVE Trim(_)
Trim(s) ==
    IF s = <<>> THEN s
    ELSE IF Head(s) = " " THEN Trim(Tail(s))
    ELSE IF s[Len(s)] = " " THEN Trim(SubSeq(s, 1, Len(s) - 1))
    ELSE s

\* String.prototype.replace(old, new): the first occurrence
ReplaceFirst(s, old, new) ==
    LET hits == {k \in 1..(Len(s) - Len(old) + 1) :
                    SubSeq(s, k, k + Len(old) - 1) = old}
    IN  IF hits = {} THEN s
        ELSE LET k == CHOOSE x \in hits : \A y \in hits : x <= y
             IN  SubSeq(s, 1, k - 1) \o new \o SubSeq(s, k + Len(old), Len(s))

\* ------------------------------------------------------- buildFileTree
\* Names the object literal `{}` inherits from Object.prototype: a lookup
\* currentLevel[part] of such a name is truthy although no node was stored.
ObjectPrototypeKeys == { <<"constructor">> }

\* String.prototype.localeCompare on the characters of the model: letters
\* compare by their place in the alphabet whatever their case; names that
\* differ only in case have the lower-case one first.
Alphabet ==
    <<".", "a", "b", "c", "constructor", "f", "g", "i", "j", "n", "p", "q",
      "s", "u", "x">>
LowerCase(ch) == IF ch = "A" THEN "a" ELSE IF ch = "B" THEN "b" ELSE ch
Primary(ch) ==
    LET hits == {k \in 1..Len(Alphabet) : Alphabet[k] = LowerCase(ch)}
    IN  IF hits = {} THEN 0 ELSE CHOOSE k \in hits : TRUE
Tertiary(ch) == IF ch = LowerCase(ch) THEN 0 ELSE 1

\* the key of a character at a comparison strength
CollationKey(strength, ch) ==
    IF strength = "primary" THEN Primary(ch) ELSE Tertiary(ch)

\* -1, 0 or 1: the lexicographic comparison of a and b at a strength
RECURSIVE CompareBy(_, _, _)
CompareBy(strength, a, b) ==
    IF a = <<>> /\ b = <<>> THEN 0
    ELSE IF a = <<>> THEN -1
    ELSE IF b = <<>> THEN 1
    ELSE IF CollationKey(strength, Head(a)) < CollationKey(strength, Head(b))
         THEN -1
    ELSE IF CollationKey(strength, Head(a)) > CollationKey(strength, Head(b))
         THEN 1
    ELSE CompareBy(strength, Tail(a), Tail(b))

localeCompare(a, b) ==
    IF CompareBy("primary", a, b) # 0 THEN CompareBy("primary", a, b)
    ELSE CompareBy("tertiary", a, b)

\* a comparator that looks at the names only
CompareNodesByName(a, b) == localeCompare(a.name, b.name)

\* the comparator of both sort calls
CompareNodes(a, b) ==
    IF a.type = b.type THEN localeCompare(a.name, b.name)
    ELSE IF a.type = "folder" THEN -1 ELSE 1

\* Array.prototype.sort (stable) with the comparator of the code
RECURSIVE SortBy(_)
SortBy(nodes) ==
    IF nodes = <<>> THEN <<>>
    ELSE LET rest == SortBy(SubSeq(nodes, 1, Len(nodes) - 1))
             x == nodes[Len(nodes)]
             after == {k \in 1..Len(rest) : CompareNodes(x, rest[k]) < 0}
             at == IF after = {} THEN Len(rest) + 1
                   ELSE CHOOSE k \in after : \A y \in after : k <= y
         IN  SubSeq(rest, 1, at - 1) \o <<x>> \o SubSeq(rest, at, Len(rest))

\* parts.forEach((part, index) => ...) on one level of the dictionary, for
\* the parts that remain; prefix holds the parts already walked.  A level
\* is the list of its own entries in insertion order, an entry's dict is
\* Some(level) for a folder and None (no _childrenDict) for a file.  The
\* result is [threw, level]: reading currentLevel[part] of an undefined
\* currentLevel throws a TypeError.
RECURSIVE InsertParts(_, _, _)
InsertParts(level, parts, prefix) ==
    LET part == Head(parts)
        isFile == Len(parts) = 1
        own == {k \in 1..Len(level) : level[k].name = part}
        inherited == own = {} /\ part \in ObjectPrototypeKeys
        entry == [name |-> part, path |-> Join(Append(prefix, part)),
                  type |-> IF isFile THEN "file" ELSE "folder",
                  dict |-> IF isFile THEN None ELSE Some(<<>>)]
        level1 == IF own = {} /\ ~inherited THEN Append(level, entry)
                  ELSE level
        k == CHOOSE x \in 1..Len(level1) : level1[x].name = part
    IN  IF isFile THEN [threw |-> FALSE, level |-> level1]
        ELSE IF inherited \/ level1[k].dict = None
        THEN [threw |-> TRUE, level |-> level1]
        ELSE LET r == InsertParts(Val(level1[k].dict), Tail(parts),
                                  Append(prefix, part))
             IN  [threw |-> r.threw,
                  level |-> [level1 EXCEPT ![k].dict = Some(r.level)]]

\* files.forEach(file => ...), from file k on
RECURSIVE InsertFiles(_, _, _)
InsertFiles(files, k, root) ==
    IF k > Len(files) THEN [threw |-> FALSE, level |-> root]
    ELSE LET r == InsertParts(root, Split(files[k].path), <<>>)
         IN  IF r.threw THEN r ELSE InsertFiles(files, k + 1, r.level)

\* Object.values(level).map(unflatten).sort(...)
RECURSIVE Unflatten(_)
Unflatten(level) ==
    SortBy([k \in 1..Len(level) |->
               [name |-> level[k].name, path |-> level[k].path,
                type |-> level[k].type,
                children |-> IF level[k].dict = None THEN <<>>
                             ELSE Unflatten(Val(level[k].dict))]])

\* buildFileTree(files): [threw, tree]
buildFileTree(files) ==
    LET r == InsertFiles(files, 1, <<>>)
    IN  IF r.threw THEN [threw |-> TRUE, tree |-> <<>>]
        ELSE [threw |-> FALSE, tree |-> Unflatten(r.level)]

\* FileExplorer: the tree state, set by the effect on [files]
fileTree == buildFileTree(currentFiles)

\* the effect threw: React unmounts the component tree, no explorer is left
ExplorerCrashed == mounted /\ fileTree.threw

\* the paths of the tree nodes a context menu can be opened on
NodePaths(files) ==
    UNION { { Join(SubSeq(Split(files[k].path), 1, n)) :
                n \in 1..Len(Split(files[k].path)) } : k \in 1..Len(files) }

\* FileExplorer's handleDelete, the confirm dialog accepted
handleDelete(path, ok) ==
    /\ UserCan /\ mounted /\ ~ExplorerCrashed
    /\ path \in NodePaths(currentFiles)
    /\ lastOp' = <<"-", 0>>
    /\ UNCHANGED sideVars
    /\ LET files == currentFiles
           isFolder == \E k \in 1..Len(files) :
                          StartsWith(files[k].path, path \o <<"/">>)
           newFiles ==
              IF isFolder
              THEN SelectSeq(files, LAMBDA f :
                      ~StartsWith(f.path, path \o <<"/">>) /\ f.path # path)
              ELSE SelectSeq(files, LAMBDA f : f.path # path)
       IN  FilesChange(CurW, Val(activeProject), newFiles, ok)

\* handleSubmitInput while renaming editingPath
handleSubmitRename(editingPath, inputValue, ok) ==
    /\ UserCan /\ mounted /\ ~ExplorerCrashed
    /\ editingPath \in NodePaths(currentFiles)
    /\ lastOp' = <<"-", 0>>
    /\ UNCHANGED sideVars
    /\ LET files == currentFiles
           oldPath == editingPath
           parts == Split(oldPath)
           newPath == Join(Append(SubSeq(parts, 1, Len(parts) - 1),
                                  Trim(inputValue)))
           isFolder == \E k \in 1..Len(files) :
                          StartsWith(files[k].path, oldPath \o <<"/">>)
           newFiles ==
              [k \in 1..Len(files) |->
                 IF isFolder /\ StartsWith(files[k].path, oldPath \o <<"/">>)
                 THEN [files[k] EXCEPT
                         !.path = ReplaceFirst(@, oldPath, newPath)]
                 ELSE IF files[k].path = oldPath
                 THEN [files[k] EXCEPT !.path = newPath]
                 ELSE files[k]]
       IN  IF Trim(inputValue) = <<>> \/ Includes(inputValue, "/")
              \/ oldPath = newPath \/ HasPath(files, newPath)
           THEN ok /\ UNCHANGED <<appVars, taskVars, cdVars, aiSession>>
           ELSE FilesChange(CurW, Val(activeProject), newFiles, ok)

\* handleSubmitInput while creating (the header buttons: parentPath '')
handleSubmitCreate(type, inputValue, ok) ==
    /\ UserCan /\ mounted /\ ~ExplorerCrashed
    /\ lastOp' = <<"-", 0>>
    /\ UNCHANGED sideVars
    /\ LET files == currentFiles
           newPath == Trim(inputValue)
           newFiles ==
              IF type = "file"
              THEN Append(files, [path |-> newPath, content |-> <<>>])
              ELSE Append(files, [path |-> newPath \o <<"/", ".gitkeep">>,
                                  content |-> <<>>])
       IN  IF Trim(inputValue) = <<>> \/ Includes(inputValue, "/")
              \/ HasPath(files, newPath)
           THEN ok /\ UNCHANGED <<appVars, taskVars, cdVars, aiSession>>
           ELSE FilesChange(CurW, Val(activeProject), newFiles, ok)

\* names the user types into the explorer's input
InputValues == { <<"n">> }
AllPaths == {IndexHtml, StyleCss, AssetsGitkeep, <<"a">>, <<"n">>}

\* ------------------------------------------- LivePreview: the srcDoc memo
\* Documents and paths of the preview are sequences of characters.  The
\* long literals of the component (the injected navigation script, the
\* text of the diagnostic page around the path) are one symbol each.
LinkOpen == <<"<", "l", "i", "n", "k">>
HrefEq == <<"h", "r", "e", "f", "=", "\"">>
DotCss == <<".", "c", "s", "s">>
ScriptOpen == <<"<", "s", "c", "r", "i", "p", "t">>
SrcEq == <<"s", "r", "c", "=", "\"">>
ScriptClose == <<">", "<", "/", "s", "c", "r", "i", "p", "t", ">">>
BodyClose == <<"<", "/", "b", "o", "d", "y", ">">>
NavigationScript == <<"[navigationScript]">>

\* the literal lit stands in s at position p
At(s, p, lit) ==
    /\ p >= 1
    /\ p + Len(lit) - 1 <= Len(s)
    /\ SubSeq(s, p, p + Len(lit) - 1) = lit

\* the first position >= p that holds the character c, 0 when there is none
NextIndex(s, p, c) ==
    LET hits == {k \in p..Len(s) : s[k] = c}
    IN  IF hits = {} THEN 0 ELSE CHOOSE k \in hits : \A x \in hits : k <= x

EndsWith(s, suf) ==
    Len(s) >= Len(suf) /\ SubSeq(s, Len(s) - Len(suf) + 1, Len(s)) = suf

\* the diagnostic document: `... Could not find the file <code>${activePath}
\* </code> in your project. ...`
NotFoundPage(path) ==
    <<"[Page Not Found: Could not find the file ">> \o path
       \o <<" in your project.]">>

StyleBlock(content) ==
    <<"<", "s", "t", "y", "l", "e", ">", "\n">> \o content
       \o <<"\n", "<", "/", "s", "t", "y", "l", "e", ">">>

ScriptBlock(content) ==
    <<"<", "s", "c", "r", "i", "p", "t", ">", "\n">> \o content
       \o <<"\n", "<", "/", "s", "c", "r", "i", "p", "t", ">">>

\* /<link.+?href="([^"]+\.css)"[^>]*>/ tried at position p.  `.+?` takes
\* the fewest characters (none of them a line break) after which the rest
\* matches; the group ends at the first quote, the tag at the first '>'.
\* The result is None or Some([last, path]).
LinkMatch(s, p) ==
    IF ~At(s, p, LinkOpen) THEN None
    ELSE LET ok(j) ==
               /\ \A x \in (p + 5)..(j - 1) : s[x] # "\n"
               /\ At(s, j, HrefEq)
               /\ LET q == NextIndex(s, j + 6, "\"")
                  IN  /\ q > 0
                      /\ Len(SubSeq(s, j + 6, q - 1)) >= 5
                      /\ EndsWith(SubSeq(s, j + 6, q - 1), DotCss)
                      /\ NextIndex(s, q + 1, ">") > 0
             js == {j \in (p + 6)..Len(s) : ok(j)}
         IN  IF js = {} THEN None
             ELSE LET j == CHOOSE x \in js : \A y \in js : x <= y
                      q == NextIndex(s, j + 6, "\"")
                  IN  Some([last |-> NextIndex(s, q + 1, ">"),
                            path |-> SubSeq(s, j + 6, q - 1)])

\* /<script.+?src="([^"]+)"[^>]*><\/script>/ tried at position p
ScriptMatch(s, p) ==
    IF ~At(s, p, ScriptOpen) THEN None
    ELSE LET ok(j) ==
               /\ \A x \in (p + 7)..(j - 1) : s[x] # "\n"
               /\ At(s, j, SrcEq)
               /\ LET q == NextIndex(s, j + 5, "\"")
                  IN  /\ q > j + 5
                      /\ At(s, NextIndex(s, q + 1, ">"), ScriptClose)
             js == {j \in (p + 8)..Len(s) : ok(j)}
         IN  IF js = {} THEN None
             ELSE LET j == CHOOSE x \in js : \A y \in js : x <= y
                      q == NextIndex(s, j + 5, "\"")
                  IN  Some([last |-> NextIndex(s, q + 1, ">") + 9,
                            path |-> SubSeq(s, j + 5, q - 1)])

\* processedHtml.replace(/<link...>/g, (linkTag, path) => ...), from p on
RECURSIVE InlineCss(_, _, _)
InlineCss(s, p, files) ==
    IF p > Len(s) THEN <<>>
    ELSE LET m == LinkMatch(s, p)
         IN  IF m = None THEN <<s[p]>> \o InlineCss(s, p + 1, files)
             ELSE (IF HasPath(files, Val(m).path)
                   THEN StyleBlock(FindFile(files, Val(m).path).content)
                   ELSE SubSeq(s, p, Val(m).last))
                  \o InlineCss(s, Val(m).last + 1, files)

\* processedHtml.replace(/<script...><\/script>/g, (scriptTag, path) => ...)
RECURSIVE InlineJs(_, _, _)
InlineJs(s, p, files) ==
    IF p > Len(s) THEN <<>>
    ELSE LET m == ScriptMatch(s, p)
         IN  IF m = None THEN <<s[p]>> \o InlineJs(s, p + 1, files)
             ELSE (IF HasPath(files, Val(m).path)
                   THEN ScriptBlock(FindFile(files, Val(m).path).content)
                   ELSE SubSeq(s, p, Val(m).last))
                  \o InlineJs(s, Val(m).last + 1, files)

\* the navigation script goes before the first </body>, or to the end
InjectNavigation(html) ==
    IF \E k \in 1..Len(html) : At(html, k, BodyClose)
    THEN ReplaceFirst(html, BodyClose, NavigationScript \o BodyClose)
    ELSE html \o NavigationScript

\* a srcDoc memo that renders nothing for a missing entry
SrcDocOfBlank(files, path) ==
    IF Len(files) = 0 \/ ~HasPath(files, path) THEN <<>>
    ELSE LET html == FindFile(files, path).content
         IN  InjectNavigation(
                 InlineJs(InlineCss(html, 1, files), 1, files))

\* the srcDoc memo
SrcDocOf(files, path) ==
    IF Len(files) = 0 THEN <<>>
    ELSE IF ~HasPath(files, path) THEN NotFoundPage(path)
    ELSE LET html == FindFile(files, path).content
         IN  InjectNavigation(
                 InlineJs(InlineCss(html, 1, files), 1, files))

\* ----------------------------------- LivePreview: inputs of the preview
\* An entry document is a list of segments: a tag that refers to a file x
\* (kind "link" or "script") or other text (kind "text").
Segment(kind, x, text) == [kind |-> kind, x |-> x, text |-> text]
ACss == <<"a", ".", "c", "s", "s">>
AJs == <<"a", ".", "j", "s">>
LinkTag(attrs, x) ==
    Segment("link", x,
            LinkOpen \o <<" ">> \o attrs \o HrefEq \o x \o <<"\"", ">">>)
ScriptTag(x) ==
    Segment("script", x,
            ScriptOpen \o <<" ">> \o SrcEq \o x \o <<"\"">> \o ScriptClose)
Segments ==
    { LinkTag(<<"r", " ">>, ACss),
      LinkTag(<<>>, <<".", "/">> \o ACss),
      LinkTag(<<"i", " ">>, <<"f", ".", "i", "c", "o">>),
      ScriptTag(AJs),
      ScriptTag(<<"b", ".", "j", "s">>),
      Segment("text", <<>>,
              ScriptOpen \o <<">", "x", "<", "/", "s", "c", "r", "i", "p",
                              "t", ">">>),
      Segment("text", <<>>, <<"\n">>) }

\* the entry documents: one or two segments
PreviewDocs ==
    { <<a>> : a \in Segments } \cup { <<a, b>> : a, b \in Segments }

RECURSIVE Flatten(_)
Flatten(d) == IF d = <<>> THEN <<>> ELSE Head(d).text \o Flatten(Tail(d))

PagePath == <<"p">>
MissingPath == <<"q">>
Assets ==
    << [path |-> ACss, content |-> <<"c">>],
       [path |-> AJs, content |-> <<"j">>] >>
Page == << [path |-> PagePath, content |-> <<"P">>] >>

\* the project around an entry document d
ProjectOf(d, more) ==
    << [path |-> IndexHtml, content |-> Flatten(d)] >> \o Page \o more

\* values of the files prop: no file, a set without index.html, and every
\* entry document with and without the files its tags refer to
ResolveFileSets ==
    { <<>>, Page }
    \cup { ProjectOf(d, more) : d \in PreviewDocs, more \in {<<>>, Assets} }

\* a few of them, for the component's life cycle
PreviewFileSets ==
    { <<>>, Page,
      ProjectOf(<<LinkTag(<<"r", " ">>, ACss)>>, Assets),
      ProjectOf(<<LinkTag(<<"r", " ">>, ACss)>>, <<>>),
      ProjectOf(<<ScriptTag(AJs)>>, Assets) }

\* event.data.path of a navigate message
NavigatePaths == { <<>>, IndexHtml, PagePath, MissingPath }

\* ------------------------------------- LivePreview: render and effects
\* One render: the srcDoc memo, the blobUrl memo on [srcDoc], and the
\* cleanup of the effect on [blobUrl], which revokes the URL it replaced.
RenderedLeaky(st, files, path) ==
    LET doc == SrcDocOf(files, path)
    IN  IF doc = st.srcDoc THEN st
        ELSE [srcDoc |-> doc,
              blobUrl |-> IF doc = <<>> THEN None
                          ELSE Some(st.createdUrls + 1),
              createdUrls |-> IF doc = <<>> THEN st.createdUrls
                              ELSE st.createdUrls + 1,
              revokedUrls |-> st.revokedUrls]

Rendered(st, files, path) ==
    LET doc == SrcDocOf(files, path)
    IN  IF doc = st.srcDoc THEN st
        ELSE [srcDoc |-> doc,
              blobUrl |-> IF doc = <<>> THEN None
                          ELSE Some(st.createdUrls + 1),
              createdUrls |-> IF doc = <<>> THEN st.createdUrls
                              ELSE st.createdUrls + 1,
              revokedUrls |-> IF IsSome(st.blobUrl)
                              THEN st.revokedUrls \cup {Val(st.blobUrl)}
                              ELSE st.revokedUrls]

CurPreview ==
    [srcDoc |-> srcDoc, blobUrl |-> blobUrl, createdUrls |-> createdUrls,
     revokedUrls |-> revokedUrls]

SetPreview(st) ==
    /\ st.createdUrls <= MaxUrls
    /\ srcDoc' = st.srcDoc
    /\ blobUrl' = st.blobUrl
    /\ createdUrls' = st.createdUrls
    /\ revokedUrls' = st.revokedUrls

\* <LivePreview files={...}/> is mounted: activePath is 'index.html'
previewMount(files) ==
    /\ ~previewMounted
    /\ lastOp' = <<"-", 0>>
    /\ previewMounted' = TRUE
    /\ previewFiles' = files
    /\ activePath' = IndexHtml
    /\ lastNavigate' = None
    /\ SetPreview(Rendered([CurPreview EXCEPT !.srcDoc = <<>>,
                                              !.blobUrl = None],
                           files, IndexHtml))
    /\ UNCHANGED <<appVars, taskVars, cdVars, aiSession, selVars, hostAccess, discussVars>>

\* the files prop changed: a render with the old activePath, then the
\* effect on [files] sets activePath to 'index.html' and renders again
previewFilesChange(files) ==
    /\ previewMounted
    /\ lastOp' = <<"-", 0>>
    /\ previewFiles' = files
    /\ activePath' = IndexHtml
    /\ lastNavigate' = None
    /\ SetPreview(Rendered(Rendered(CurPreview, files, activePath),
                           files, IndexHtml))
    /\ UNCHANGED <<appVars, taskVars, cdVars, aiSession, selVars, hostAccess, discussVars,
                   previewMounted>>

\* a listener that takes event.data.path as it comes
handleMessageNavigateRaw(path) ==
    /\ previewMounted
    /\ lastOp' = <<"-", 0>>
    /\ lastNavigate' = Some(path)
    /\ IF path # activePath
       THEN /\ activePath' = path
            /\ SetPreview(Rendered(CurPreview, previewFiles, path))
       ELSE UNCHANGED <<activePath, srcDoc, blobUrl, createdUrls,
                        revokedUrls>>
    /\ UNCHANGED <<appVars, taskVars, cdVars, aiSession, selVars, hostAccess, discussVars,
                   previewMounted, previewFiles>>

\* handleMessage of LivePreview, event.data.type === 'navigate'
handleMessageNavigate(path) ==
    /\ previewMounted
    /\ lastOp' = <<"-", 0>>
    /\ lastNavigate' = Some(path)
    /\ LET newPath == IF path = <<>> THEN IndexHtml ELSE path
       IN  IF newPath # activePath
           THEN /\ activePath' = newPath
                /\ SetPreview(Rendered(CurPreview, previewFiles, newPath))
           ELSE UNCHANGED <<activePath, srcDoc, blobUrl, createdUrls,
                            revokedUrls>>
    /\ UNCHANGED <<appVars, taskVars, cdVars, aiSession, selVars, hostAccess, discussVars,
                   previewMounted, previewFiles>>

\* unmount: the cleanup of the effect on [blobUrl] revokes the current URL
previewUnmount ==
    /\ previewMounted
    /\ lastOp' = <<"-", 0>>
    /\ previewMounted' = FALSE
    /\ previewFiles' = <<>>
    /\ activePath' = IndexHtml
    /\ lastNavigate' = None
    /\ srcDoc' = <<>>
    /\ blobUrl' = None
    /\ revokedUrls' = IF IsSome(blobUrl) THEN revokedUrls \cup {Val(blobUrl)}
                      ELSE revokedUrls
    /\ UNCHANGED <<appVars, taskVars, cdVars, aiSession, selVars, hostAccess, discussVars,
                   createdUrls>>

\* The iframe: sandbox="allow-scripts allow-same-origin allow-forms
\* allow-popups", src = the blob URL.  A blob URL has the origin of the
\* document that called URL.createObjectURL; a sandbox without
\* allow-same-origin gives the framed document an opaque origin instead.
SandboxTokens ==
    {"allow-scripts", "allow-same-origin", "allow-forms", "allow-popups"}
HostOrigin == "host"
BlobOrigin == HostOrigin
FrameOrigin ==
    IF "allow-same-origin" \in SandboxTokens THEN BlobOrigin ELSE "opaque"

\* what a same-origin script can reach through window.parent
HostState == {"localStorage", "cookie", "parentDocument"}

\* a script of the generated document, running in the iframe, reads or
\* writes what of the host
previewScriptAccessesHost(what) ==
    /\ previewMounted /\ IsSome(blobUrl)
    /\ \E k \in 1..Len(srcDoc) : At(srcDoc, k, ScriptOpen)
    /\ "allow-scripts" \in SandboxTokens
    /\ FrameOrigin = HostOrigin
    /\ lastOp' = <<"-", 0>>
    /\ hostAccess' = hostAccess \cup {what}
    /\ UNCHANGED <<appVars, taskVars, cdVars, aiSession, selVars, discussVars,
                   previewMounted, previewFiles, activePath, srcDoc, blobUrl,
                   createdUrls, revokedUrls, lastNavigate>>

\* ------------------------------------------------- element selection (App)
\* payloads of the elementSelected messages the preview iframe posts
SelectedPayloads ==
    { [selector |-> "h1", html |-> "<h1>"],
      [selector |-> "p", html |-> "<p>"] }

\* the selection button of the preview toolbar
handleToggleSelectionMode ==
    /\ UserCan
    /\ lastOp' = <<"-", 0>>
    /\ isSelectionModeActive' = ~isSelectionModeActive
    /\ UNCHANGED <<appVars, taskVars, cdVars, aiSession, selectedElement,
                   previewVars, discussVars>>

\* a message handler that keeps selection mode on
elementSelectedSticky(payload) ==
    /\ lastOp' = <<"elementSelected", payload>>
    /\ selectedElement' = Some(payload)
    /\ UNCHANGED <<appVars, taskVars, cdVars, aiSession,
                   isSelectionModeActive, previewVars, discussVars>>

\* window 'message' listener of App, event.data.type === 'elementSelected'
elementSelected(payload) ==
    /\ lastOp' = <<"elementSelected", payload>>
    /\ selectedElement' = Some(payload)
    /\ isSelectionModeActive' = FALSE
    /\ UNCHANGED <<appVars, taskVars, cdVars, aiSession, previewVars,
                   discussVars>>

\* onClearSelection of the prompt panel
onClearSelection ==
    /\ UserCan
    /\ IsSome(selectedElement)
    /\ lastOp' = <<"-", 0>>
    /\ selectedElement' = None
    /\ UNCHANGED <<appVars, taskVars, cdVars, aiSession,
                   isSelectionModeActive, previewVars, discussVars>>

\* ------------------------------------------------------ next-state relation
\* R is the set of file lists the generation service may answer with
NextProjects(R) ==
    \/ \E id \in ProjIds : handleSelectProject(id)
    \/ handleCreateNewApp
    \/ handleStartWizard
    \/ \E r \in R : handleCreateProject(r, TRUE)

NextHistory ==
    \/ \E i \in 0..MaxClock : handleRestoreVersion(i, TRUE)
    \/ handleUndo(TRUE)
    \/ handleRedo(TRUE)

NextGenerate(R) ==
    \/ \E q \in Prompts : handleGenerate(q)
    \/ \E k \in 1..MaxGen, r \in R : generateResolved(k, r)
    \/ \E k \in 1..MaxGen : generateRejected(k)
    \/ \E k \in 1..MaxGen : applyResult(k)

NextAnimate ==
    \/ \E s \in 1..MaxAnim : animationFrame(s)
    \/ \E s \in 1..MaxAnim : animationResume(s)

NextCommit ==
    \/ \E k \in 1..MaxAnim : commitPush(k)
    \/ \E k \in 1..MaxAnim : commitStored(k, TRUE)
    \/ \E k \in 1..MaxAnim : commitReload(k)
    \/ \E k \in 1..MaxAnim : commitIdle(k)

NextAuth(R) ==
    \/ \E r \in R : handleSaveApiKey(r, TRUE)
    \/ \E r \in R : onAuthStateChange(r, TRUE)
    \/ fetchProjectsResolved(TRUE)

NextEdit ==
    \/ \E c \in TypedContents : handleCodeChange(c)
    \/ autoSave(TRUE)
    \/ savedTimeout

NextTabs ==
    \/ \E tab \in {"preview", "code"} : setActiveTab(tab)
    \/ \E p \in AllPaths : handleCloseTab(p, TRUE)

NextExplorer ==
    \/ \E p \in AllPaths : handleDelete(p, TRUE)
    \/ \E p \in AllPaths, v \in InputValues : handleSubmitRename(p, v, TRUE)
    \/ \E t \in {"file", "folder"}, v \in InputValues :
          handleSubmitCreate(t, v, TRUE)

\* the whole program
Next ==
    \/ NextProjects(TargetSets) \/ NextHistory \/ NextGenerate(TargetSets)
    \/ NextAnimate \/ NextCommit \/ NextAuth(TargetSets) \/ NextEdit
    \/ NextTabs \/ NextExplorer

Spec == Init /\ [][Next]_vars

\* The scenarios below restrict Next to the handlers a group of properties
\* is about, so that TLC explores each of them to the end.
InitKey == Init /\ apiKey

\* the history log and its writers: restore, undo/redo, the AI pipeline,
\* the editor's saves, project creation, the reload from the table
NextLog ==
    \/ NextHistory \/ NextGenerate({MainTarget}) \/ NextAnimate \/ NextCommit
    \/ NextEdit \/ NextProjects({MainTarget})
    \/ onAuthStateChange(MainTarget, TRUE)
    \/ fetchProjectsResolved(TRUE)

SpecHistory == InitKey /\ [][NextLog]_vars

\* the history handlers with the editor's saves, several projects
NextManual ==
    \/ NextHistory \/ NextEdit \/ NextTabs \/ NextProjects({MainTarget})

SpecManual == InitKey /\ [][NextManual]_vars

\* one generation and its apply, while the user navigates
NextApply ==
    \/ NextGenerate({MainTarget}) \/ NextAnimate \/ NextCommit
    \/ NextProjects({MainTarget})
    \/ \E tab \in {"preview", "code"} : setActiveTab(tab)

SpecApply == InitKey /\ [][NextApply]_vars

\* the apply, while the user works in the code view
NextEditing ==
    \/ NextGenerate({MainTarget}) \/ NextAnimate \/ NextCommit
    \/ NextEdit \/ NextTabs \/ NextExplorer

SpecEditing == InitKey /\ [][NextEditing]_vars

\* generation requests with and without an API key
NextPending ==
    \/ NextGenerate(TargetSets) \/ NextAnimate \/ NextCommit
    \/ NextAuth(TargetSets)

SpecPending == Init /\ [][NextPending]_vars

\* generation, animation and commit alone: the user only sends prompts
NextSession ==
    \/ NextGenerate(TargetSets) \/ NextAnimate \/ NextCommit

SpecSession == InitKey /\ [][NextSession]_vars

\* element selection during and between sessions
NextSelection ==
    \/ handleToggleSelectionMode
    \/ \E payload \in SelectedPayloads : elementSelected(payload)
    \/ onClearSelection
    \/ NextSession

SpecSelection == InitKey /\ [][NextSelection]_vars

\* the srcDoc of a freshly mounted LivePreview, for every files prop
NextResolve ==
    \/ \E files \in ResolveFileSets : previewMount(files)
    \/ previewUnmount

SpecResolve == InitKey /\ [][NextResolve]_vars

\* the life cycle of the LivePreview component
NextPreview ==
    \/ \E files \in PreviewFileSets : previewMount(files)
    \/ \E files \in PreviewFileSets : previewFilesChange(files)
    \/ \E path \in NavigatePaths : handleMessageNavigate(path)
    \/ previewUnmount

SpecPreview == InitKey /\ [][NextPreview]_vars

\* the file explorer on the file sets a generation may have stored: paths
\* with a common directory, a file whose path is a directory of another,
\* names that differ in case, a name Object.prototype has, a path twice
TreePaths ==
    { <<"a">>, <<"a", "/", "b">>, <<"B">>, <<"b">>, <<"b", "/", "b">>,
      <<"constructor">> }
TreeFileSets ==
    UNION { [1..n -> {[path |-> p, content |-> <<>>] : p \in TreePaths}] :
              n \in 1..MaxTreeFiles }

\* what the user types into the explorer's input
TreeInputValues ==
    { <<>>, <<" ">>, <<"a", "/", "n">>, <<"n">>, <<"b">>, <<" ", "a">> }

InitTree ==
    /\ \E files \in TreeFileSets : projects = InitProjects(files)
    /\ InitRest
    /\ apiKey

NextTree ==
    \/ \E tab \in {"preview", "code"} : setActiveTab(tab)
    \/ \E p \in TreePaths \cup {<<"n">>} : handleDelete(p, TRUE)
    \/ \E p \in TreePaths \cup {<<"n">>}, v \in TreeInputValues :
          handleSubmitRename(p, v, TRUE)
    \/ \E t \in {"file", "folder"}, v \in TreeInputValues :
          handleSubmitCreate(t, v, TRUE)

SpecTree == InitTree /\ [][NextTree]_vars

\* one generation after another, the service answering with any response
NextAnswers ==
    \/ \E p \in Prompts : handleGenerate(p)
    \/ \E k \in 1..MaxGen, r \in Responses : generateAnswered(k, r)
    \/ \E k \in 1..MaxGen : applyResult(k)
    \/ NextAnimate \/ NextCommit

SpecAnswers == InitKey /\ [][NextAnswers]_vars

\* discuss requests while the user works on the history
NextDiscuss ==
    \/ handleToggleDiscussMode
    \/ \E q \in Prompts : handleGenerateDiscuss(q)
    \/ \E k \in 1..MaxDiscuss : discussResolved(k, TRUE)
    \/ \E k \in 1..MaxDiscuss : discussRejected(k)
    \/ \E k \in 1..MaxDiscuss : discussFinally(k)
    \/ NextHistory \/ NextEdit
    \/ \E tab \in {"preview", "code"} : setActiveTab(tab)

SpecDiscuss == InitKey /\ [][NextDiscuss]_vars


\* the typing of targets of several lengths, one of them for a path the
\* project does not hold; a requested animation frame is eventually run
TypingTargets ==
    { << [path |-> IndexHtml, content |-> <<"a", "b", "c">>] >>,
      << [path |-> StyleCss, content |-> <<"a", "b">>],
         [path |-> IndexHtml, content |-> <<>>] >> }

NextTyping == NextGenerate(TypingTargets) \/ NextAnimate \/ NextCommit

FramesRun == \A s \in 1..MaxAnim : WF_vars(animationFrame(s))

SpecTyping == InitKey /\ [][NextTyping]_vars /\ FramesRun

\* the preview and the scripts of the documents it frames
NextSandbox ==
    \/ NextPreview
    \/ \E what \in HostState : previewScriptAccessesHost(what)

SpecSandbox == InitKey /\ [][NextSandbox]_vars

\* the editor's typing and saves; a write to the table may fail
NextEditFailing ==
    \/ \E c \in TypedContents : handleCodeChange(c)
    \/ \E ok \in BOOLEAN : autoSave(ok)
    \/ savedTimeout

\* every writer of codeHistory to the table, each write failing or not
NextPersist ==
    \/ \E i \in 0..MaxClock, ok \in BOOLEAN : handleRestoreVersion(i, ok)
    \/ \E ok \in BOOLEAN : handleUndo(ok)
    \/ \E ok \in BOOLEAN : handleRedo(ok)
    \/ NextEditFailing
    \/ NextGenerate({MainTarget}) \/ NextAnimate
    \/ \E k \in 1..MaxAnim : commitPush(k)
    \/ \E k \in 1..MaxAnim, ok \in BOOLEAN : commitStored(k, ok)
    \/ \E k \in 1..MaxAnim : commitReload(k)
    \/ \E k \in 1..MaxAnim : commitIdle(k)

SpecPersist == InitKey /\ [][NextPersist]_vars

\* the editor with failing saves; restore, undo and redo always stored
NextSaving ==
    \/ NextEditFailing
    \/ NextHistory
    \/ \E tab \in {"preview", "code"} : setActiveTab(tab)
    \/ \E p \in AllPaths, ok \in BOOLEAN : handleCloseTab(p, ok)

SpecSaving == InitKey /\ [][NextSaving]_vars

\* The session while the user switches tabs or leaves the project, with the
\* scheduling the runtime gives: a pending promise of the generation
\* service settles, a requested animation frame that is not cancelled
\* runs, a timer that was set fires.  Nothing is assumed of the user.
NextNavigate ==
    \/ NextGenerate({MainTarget}) \/ NextAnimate \/ NextCommit
    \/ \E tab \in {"preview", "code"} : setActiveTab(tab)
    \/ handleCreateNewApp

ServiceAnswers(k) ==
    \/ \E r \in {MainTarget} : generateResolved(k, r)
    \/ generateRejected(k)

TimersFire ==
    /\ \A k \in 1..MaxGen : WF_vars(ServiceAnswers(k))
    /\ \A k \in 1..MaxGen : WF_vars(applyResult(k))
    /\ \A s \in 1..MaxAnim : WF_vars(animationFrame(s))
    /\ \A s \in 1..MaxAnim : WF_vars(animationResume(s))
    /\ \A k \in 1..MaxAnim :
          WF_vars(commitPush(k) \/ commitStored(k, TRUE)
                  \/ commitReload(k) \/ commitIdle(k))

SpecNavigateFair == InitKey /\ [][NextNavigate]_vars /\ TimersFire

\* the editor with two successive edits of a file, its timers, and an AI
\* edit; every timer that is set eventually fires
EditContents == { <<"u">>, <<"u", "v">> }

NextAutoSave ==
    \/ \E c \in EditContents : handleCodeChange(c)
    \/ autoSave(TRUE)
    \/ savedTimeout
    \/ \E tab \in {"preview", "code"} : setActiveTab(tab)
    \/ NextGenerate({MainTarget}) \/ NextAnimate \/ NextCommit

EditorTimersFire == WF_vars(autoSave(TRUE)) /\ WF_vars(savedTimeout)

SpecAutoSave ==
    InitKey /\ [][NextAutoSave]_vars /\ EditorTimersFire /\ TimersFire

\* =================================================================== C1
\* C1: in every reachable state every project's history log is non-empty
\* and 0 <= currentIndex < entries.length, whatever sequence of create, AI
\* commit, manual save, restore, undo and redo led to it.
Projects == {id \in ProjIds : IsSome(projects[id])}
HistoryOf(id) == Val(projects[id]).history
IndexOfProject(id) == Val(projects[id]).currentIndex

C1_IndexInRange ==
    \A id \in Projects :
        /\ Len(HistoryOf(id)) >= 1
        /\ 0 <= IndexOfProject(id)
        /\ IndexOfProject(id) < Len(HistoryOf(id))

\* an undo took effect on a log of three entries that holds an AI commit
\* (timestamp 1, the prompt of the entry before it) and a restored entry
C1_Witness ==
    /\ lastOp[1] = "undo"
    /\ \E id \in Projects :
          /\ Len(HistoryOf(id)) = 3
          /\ IndexOfProject(id) = 1
          /\ HistoryOf(id)[2].prompt = InitialPrompt
          /\ HistoryOf(id)[2].files = MainTarget
          /\ HistoryOf(id)[3].files = InitialFiles

\* =================================================================== C2
\* C2 (history linearity): whenever an entry is appended to a project whose
\* log has currentIndex = c (that is, after n appends and k = n - 1 - c
\* undos), the new log has c + 2 = n - k + 1 entries, currentIndex is its
\* last index, and the first c + 1 entries are the old ones in order.
Appended(id) ==
    /\ IsSome(projects[id]) /\ IsSome(projects'[id])
    /\ projects'[id] # projects[id]
    /\ now' # now

C2_Linear ==
    [][\A id \in ProjIds :
          Appended(id) =>
             LET old == Val(projects[id])
                 new == Val(projects'[id])
             IN  /\ Len(new.history) = old.currentIndex + 2
                 /\ new.currentIndex = Len(new.history) - 1
                 /\ SubSeq(new.history, 1, old.currentIndex + 1)
                      = SubSeq(old.history, 1, old.currentIndex + 1)]_vars

\* =================================================================== C3
\* C3 (restore is additive): a restore of an existing index i appends one
\* new entry, created at the time of the restore, whose files are those of
\* entries[i]; the log becomes entries[0..currentIndex] followed by that
\* entry, with currentIndex pointing at it, so that no old entry (entry i
\* included) becomes the current one, and with currentIndex at the tail the
\* length grows by exactly 1.  A restore of a non-existing index changes no
\* project.  The other projects are never changed.
RestoreStep == lastOp'[1] = "restore"

C4_UndoRedoFrame ==
    [][lastOp'[1] \in {"undo", "redo"} =>
          LET old == Val(activeProject)
              new == Val(projects'[activeProjectId])
              c == old.currentIndex
              target == IF lastOp'[1] = "undo"
                        THEN (IF c = 0 THEN c ELSE c - 1)
                        ELSE (IF c = Len(old.history) - 1 THEN c ELSE c + 1)
          IN  /\ new.history = old.history
              /\ new.currentIndex = target
              /\ new.id = old.id
              /\ activeProjectId' = activeProjectId
              /\ currentFiles' = old.history[target + 1].files
              /\ \A id \in ProjIds \ {activeProjectId} :
                    projects'[id] = projects[id]
              /\ UNCHANGED <<now, aiTargetFiles, activeTab, gens, commits>>
    ]_vars

\* an undo took effect: the log has two entries and the first is current
C4_Witness ==
    /\ lastOp[1] = "undo"
    /\ IsSome(activeProject)
    /\ Len(Val(activeProject).history) = 2
    /\ Val(activeProject).currentIndex = 0
    /\ currentFiles = Val(activeProject).history[1].files

\* =================================================================== C5
\* C5 (apply atomicity): a loop of animate() whose effect was cleaned up, or
\* whose code view was unmounted, before it had typed every target file
\* never gets its commit into the history: the runAsync() it would start
\* does not reach the push of the entry.
C5_AbandonedNeverCommits ==
    \A k \in 1..Len(commits) : commits[k].early => commits[k].pc = "wait500"

\* =================================================================== C6
\* C6: the animation of a target is run once and the commit is performed
\* once: the step in which the commit puts the new entry into the in-memory
\* project (its write not yet returned, aiTargetFiles still set) does not
\* call animate() again.
CommitPushStep(k) ==
    /\ k \in 1..Len(commits) /\ Len(commits') = Len(commits)
    /\ commits[k].pc = "wait500"
    /\ commits'[k].pc = "updateProjectInDb"

C6_AnimatedOnce ==
    [][\A k \in 1..MaxAnim :
          CommitPushStep(k) => animationRuns' = animationRuns]_vars

\* =================================================================== C7
\* C7: a generation started for project A never writes into another
\* project: every commit that has put its entry into a project did so into
\* the project its target was generated for.
C7_NoCrossProjectWrite ==
    \A k \in 1..Len(commits) :
        commits[k].pc # "wait500"
            => commits[k].activeProject.id = commits[k].origin

\* =================================================================== C8
\* C8: while aiTargetFiles is set no manual operation appends a history
\* entry: no step taken with aiTargetFiles set adds an entry whose prompt is
\* "Manual code edit" (the entry of handleFilesChange, which the editor's
\* saves and the File Explorer's create, rename and delete all go through).
C8_NoManualEntryDuringApply ==
    [][IsSome(aiTargetFiles) =>
          \A id \in ProjIds :
             Appended(id) =>
                LET h == Val(projects'[id]).history
                IN  h[Len(h)].prompt # ManualPrompt]_vars

\* =================================================================== C9
\* C9: at no time are two generations in flight, whether they were started
\* through handleGenerate or through the pending action.
C9_OneGenerationInFlight == Len(gens) <= 1

\* ================================================================== C10
\* C10: the response of a generation that a later generation superseded
\* while it was awaited is not applied: the step that ends its 1000 ms wait
\* does not set aiTargetFiles.
C10_SupersededNotApplied ==
    [][\A k \in 1..MaxGen :
          (/\ k \in 1..Len(gens)
           /\ gens[k].pc = "wait1000" /\ gens[k].superseded
           /\ gens' = RemoveAt(gens, k))
          => aiTargetFiles' = aiTargetFiles]_vars

\* ================================================================== C11
\* C11 (stage order): within one apply session generationStatus.stage only
\* moves forward through thinking, editing, applying, reloading, idle; a
\* session ends at idle and the next one starts at thinking.  Steps that
\* leave the stage where it is (frames, the next file's 'started' event)
\* are allowed.
StageRank(stage) ==
    CASE stage = "thinking" -> 1
      [] stage = "editing" -> 2
      [] stage = "applying" -> 3
      [] stage = "reloading" -> 4
      [] OTHER -> 5

C11_StagesInOrder ==
    [][ generationStatus # "idle"
          => StageRank(generationStatus') >= StageRank(generationStatus) ]_vars
\* ================================================================== C12
\* C12 (no stuck session): whenever the stage is not idle or aiTargetFiles
\* is set, the stage eventually is idle with aiTargetFiles cleared,
\* whatever the user does, provided the service answers and frames and
\* timers fire.  Runs that reach the bounds of the exploration (the clock,
\* the number of animate() runs) are left out.
SessionBusy == generationStatus # "idle" \/ IsSome(aiTargetFiles)
SessionOver == generationStatus = "idle" /\ aiTargetFiles = None
BoundReached == now >= MaxClock \/ animationRuns >= MaxAnim

C12_NoStuckSession == SessionBusy ~> (SessionOver \/ BoundReached)
\* ================================================================== C13
\* C13 (failed generation): the step in which an awaited generateWebApp
\* call fails sets the error notice, returns the stage to idle, leaves
\* aiTargetFiles cleared, starts no animation and no commit, and changes
\* no project's history or currentIndex, in memory or in the table.
RejectStep ==
    \E k \in 1..Len(gens) :
        gens[k].pc = "generateWebApp" /\ gens' = RemoveAt(gens, k)

C13_FailureLeavesHistory ==
    [][ RejectStep =>
          /\ error' = "generate"
          /\ generationStatus' = "idle"
          /\ aiTargetFiles' = None
          /\ projects' = projects
          /\ db' = db
          /\ animationRuns' = animationRuns
          /\ commits' = commits ]_vars

\* a request failed after an earlier session had committed its entry
C13_Witness ==
    /\ error = "generate"
    /\ generationStatus = "idle"
    /\ aiTargetFiles = None
    /\ gens = <<>>
    /\ \E id \in Projects :
          Len(HistoryOf(id)) = 2 /\ IndexOfProject(id) = 1
\* ================================================================== C14
\* C14 (persistence of history changes): a step that changes a project's
\* history or currentIndex in memory (manual save, restore, undo, redo) has
\* written exactly the resulting codeHistory to the project's row, or the
\* write failed and the error notice is set; the AI commit passes exactly
\* the project it put in memory to updateProjectInDb, and when that write
\* returns the row holds it or the error notice is set.
StoredIn(rows, p) ==
    /\ IsSome(rows[p.id])
    /\ Val(rows[p.id]).history = p.history
    /\ Val(rows[p.id]).currentIndex = p.currentIndex

HistoryChanged(id) ==
    /\ IsSome(projects[id]) /\ IsSome(projects'[id])
    /\ \/ Val(projects'[id]).history # Val(projects[id]).history
       \/ Val(projects'[id]).currentIndex # Val(projects[id]).currentIndex

WriteIssued(id) ==
    \E k \in 1..Len(commits) :
        /\ commits[k].pc = "wait500"
        /\ Len(commits') = Len(commits)
        /\ commits'[k].pc = "updateProjectInDb"
        /\ commits'[k].activeProject = Val(projects'[id])

WriteReturned(k) ==
    /\ commits[k].pc = "updateProjectInDb"
    /\ Len(commits') = Len(commits)
    /\ commits'[k].pc = "reload"

C14_HistoryChangesPersisted ==
    [][ /\ \A id \in ProjIds :
             HistoryChanged(id) =>
                \/ StoredIn(db', Val(projects'[id])) /\ error' = error
                \/ error' = "save" /\ db' = db
                \/ WriteIssued(id)
        /\ \A k \in 1..Len(commits) :
             WriteReturned(k) =>
                \/ StoredIn(db', commits[k].activeProject) /\ error' = error
                \/ error' = "save" /\ db' = db ]_vars

\* a restore whose write failed: two entries in memory, one in the row,
\* and the error notice
C14_Witness ==
    /\ lastOp[1] = "restore"
    /\ error = "save"
    /\ IsSome(projects["A"]) /\ Len(Val(projects["A"]).history) = 2
    /\ Len(Val(db["A"]).history) = 1
\* ================================================================== C15
\* C15 (save indicator): saveStatus is one of saved, unsaved, saving, and
\* the indicator never shows 'saved' while the last save's write failed.
\* Where only a save can fail, the active project's row differs from the
\* project in memory exactly when the last write was a failed save.
C15_SavedMeansStored ==
    /\ saveStatus \in {"saved", "unsaved", "saving"}
    /\ (mounted /\ saveStatus = "saved" /\ IsSome(activeProject))
          => StoredIn(db, Val(activeProject))
RECURSIVE ExpectedDoc(_, _)
ExpectedDoc(d, files) ==
    IF d = <<>> THEN <<>>
    ELSE LET seg == Head(d)
             out == IF seg.kind = "link" /\ HasPath(files, seg.x)
                    THEN StyleBlock(FindFile(files, seg.x).content)
                    ELSE IF seg.kind = "script" /\ HasPath(files, seg.x)
                    THEN ScriptBlock(FindFile(files, seg.x).content)
                    ELSE seg.text
         IN  out \o ExpectedDoc(Tail(d), files)

C16_InlineExactly ==
    previewMounted =>
        \A d \in PreviewDocs, more \in {<<>>, Assets} :
            previewFiles = ProjectOf(d, more)
               => srcDoc = InjectNavigation(ExpectedDoc(d, previewFiles))
\* ================================================================== C17
\* C17 (missing entry): whenever the preview is mounted with a non-empty
\* file set that has no file at the active path, the rendered document is
\* the 'Page Not Found' diagnostic naming that path, it is not empty, and
\* a blob URL shows it.
C17_MissingEntryDiagnostic ==
    (previewMounted /\ Len(previewFiles) > 0
        /\ ~HasPath(previewFiles, activePath))
    => /\ srcDoc = NotFoundPage(activePath)
       /\ srcDoc # <<>>
       /\ IsSome(blobUrl)

\* a navigate message to a path that was never created
C17_Witness ==
    /\ previewMounted
    /\ HasPath(previewFiles, IndexHtml)
    /\ lastNavigate = Some(MissingPath)
    /\ activePath = MissingPath
    /\ srcDoc = NotFoundPage(MissingPath)

\* ================================================================== C18
\* C18 (entry path): the active path is index.html when no navigate
\* message arrived since the file set last changed, and otherwise the path
\* of the last such message (index.html for an empty path); a message with
\* the current path re-renders nothing.
LastNavigatedPath ==
    IF lastNavigate = None \/ lastNavigate = Some(<<>>) THEN IndexHtml
    ELSE Val(lastNavigate)

SamePathMessage ==
    /\ previewMounted /\ previewMounted'
    /\ lastNavigate' # None
    /\ previewFiles' = previewFiles
    /\ activePath' = activePath

LiveUrls == (1..createdUrls) \ revokedUrls

C19_UrlsRevoked ==
    /\ revokedUrls \subseteq 1..createdUrls
    /\ LiveUrls = (IF IsSome(blobUrl) THEN {Val(blobUrl)} ELSE {})
    /\ Cardinality(LiveUrls) <= 1
    /\ ~previewMounted => LiveUrls = {}

\* torn down after several documents were shown
C19_Witness ==
    /\ ~previewMounted
    /\ createdUrls >= 3
    /\ revokedUrls = 1..createdUrls
\* ================================================================== C21
\* C21 (tree order): whenever the explorer shows a tree, at every level of
\* it all folder nodes come before all file nodes and nodes of the same
\* kind are in alphabetical order of name; the tree is a function of the
\* file set: the same files listed in the opposite order give the same tree.
Alphabetical(a, b) == CompareBy("primary", a, b) <= 0

LevelSorted(nodes) ==
    \A i, j \in 1..Len(nodes) :
        i < j => /\ nodes[i].type = "folder" \/ nodes[j].type = "file"
                 /\ nodes[i].type = nodes[j].type
                       => Alphabetical(nodes[i].name, nodes[j].name)

RECURSIVE AllLevelsSorted(_)
AllLevelsSorted(nodes) ==
    /\ LevelSorted(nodes)
    /\ \A k \in 1..Len(nodes) : AllLevelsSorted(nodes[k].children)

Reversed(files) == [k \in 1..Len(files) |-> files[Len(files) + 1 - k]]

C21_TreeSorted ==
    (mounted /\ ~fileTree.threw)
    => /\ AllLevelsSorted(fileTree.tree)
       /\ LET r == buildFileTree(Reversed(currentFiles))
          IN  ~r.threw => r.tree = fileTree.tree

\* a folder listed last is shown first, before files of both cases
C21_Witness ==
    /\ mounted /\ ~fileTree.threw
    /\ Len(fileTree.tree) >= 3
    /\ fileTree.tree[1].type = "folder"
    /\ fileTree.tree[3].type = "file"
    /\ Includes(currentFiles[Len(currentFiles)].path, "/")
    /\ currentFiles[1].path = <<"B">>

\* ================================================================== C22
\* C22 (tree leaves): for every file set the explorer shows, buildFileTree
\* does not throw, and every file path of the set has exactly one node of
\* kind 'file' with that path.
RECURSIVE FileNodePaths(_)
FileNodePaths(nodes) ==
    IF nodes = <<>> THEN <<>>
    ELSE (IF Head(nodes).type = "file" THEN <<Head(nodes).path>>
          ELSE FileNodePaths(Head(nodes).children))
         \o FileNodePaths(Tail(nodes))

C22_EveryFileOneNode ==
    mounted
    => /\ ~fileTree.threw
       /\ \A k \in 1..Len(currentFiles) :
             Cardinality({n \in 1..Len(FileNodePaths(fileTree.tree)) :
                 FileNodePaths(fileTree.tree)[n] = currentFiles[k].path}) = 1
\* ================================================================== C23
\* C23 (explorer keeps paths unique): a step of the file explorer that
\* starts from a current file set whose paths are unique and non-empty
\* ends in a current file set whose paths are unique and non-empty.
UniqueNonEmpty(files) ==
    \A k \in 1..Len(files) :
        /\ files[k].path # <<>>
        /\ \A j \in 1..Len(files) : files[j].path = files[k].path => j = k

C23_ExplorerKeepsPathsUnique ==
    [][(mounted /\ UniqueNonEmpty(currentFiles))
          => UniqueNonEmpty(currentFiles')]_vars
\* ================================================================== C24
\* C24 (malformed response): nothing of a response whose entries lack path
\* or content is applied: the animation target and the files of every
\* history entry have a path and a content in every entry.
WellFormedFiles(files) ==
    \A n \in 1..Len(files) :
        files[n].path # Undefined /\ files[n].content # Undefined

C24_MalformedNeverApplied ==
    /\ IsSome(aiTargetFiles) => WellFormedFiles(Val(aiTargetFiles))
    /\ \A id \in ProjIds :
          IsSome(projects[id])
          => \A n \in 1..Len(Val(projects[id]).history) :
                WellFormedFiles(Val(projects[id]).history[n].files)
\* ================================================================== C25
\* C25 (sandbox): no script of a previewed document reaches the host
\* application's origin-bound state (storage, cookies, the parent's DOM).
C25_SandboxIsolated == hostAccess = {}
\* ================================================================== C26
\* C26 (entry of an AI edit): the entry that handleAnimationComplete
\* appends carries as prompt an instruction the user submitted with
\* handleGenerate, and as files the animated target, which is a file list
\* the service returned.
AppendedByCommit(k) == commits'[k].activeProject.history[
                           Len(commits'[k].activeProject.history)]

C26_EntryCarriesInstruction ==
    [][\A k \in 1..MaxAnim :
          CommitPushStep(k) =>
             /\ AppendedByCommit(k).prompt \in Prompts
             /\ AppendedByCommit(k).files = commits[k].animatedFiles
             /\ AppendedByCommit(k).files \in TargetSets]_vars
\* ================================================================== C27
\* C27 (typing): every frame of a loop that types a target file leaves in
\* editorContentRef, for the path of that file, a prefix of the target
\* content that is no shorter than what the loop had typed before; each
\* frame types at least one more character or reports the file complete,
\* and then the stored content is the whole target content; a file that is
\* being typed is eventually complete, unless its loop is cancelled.
Typing(s) ==
    /\ IsSome(anims[s]) /\ Val(anims[s]).phase = "frame"
    /\ ~Val(anims[s]).orphan

FrameStep(s) ==
    /\ Typing(s) /\ IsSome(anims'[s])
    /\ anims'[s] # anims[s]
    /\ Val(anims'[s]).i = Val(anims[s]).i
    /\ Val(anims'[s]).target = Val(anims[s]).target
    /\ animationRuns' = animationRuns

IsPrefix(a, b) == Len(a) <= Len(b) /\ SubSeq(b, 1, Len(a)) = a

C27_TypedPrefixGrows ==
    /\ [][\A s \in 1..MaxAnim :
            FrameStep(s) =>
               LET t == Val(anims[s])
                   u == Val(anims'[s])
                   path == t.target[t.i].path
                   to == t.target[t.i].content
               IN  /\ path \in DOMAIN editorContentRef'
                   /\ IsPrefix(editorContentRef'[path], to)
                   /\ Len(editorContentRef'[path]) = u.typed
                   /\ u.typed >= t.typed
                   /\ u.typed > t.typed \/ u.phase = "timeout"
                   /\ u.phase = "timeout"
                         => editorContentRef'[path] = to]_vars
    /\ \A s \in 1..MaxAnim : Typing(s) ~> ~Typing(s)

\* the second frame of a three-character file, and a path the project
\* does not hold typed to its end
C27_Witness ==
    \E s \in 1..MaxAnim :
        /\ IsSome(anims[s]) /\ ~Val(anims[s]).orphan
        /\ LET t == Val(anims[s])
           IN  /\ t.target[1].path = StyleCss
               /\ ~HasPath(currentFiles, StyleCss)
               /\ t.i = 1 /\ t.phase = "timeout"
               /\ editorContentRef[StyleCss] = <<"a", "b">>
\* ================================================================== C28
\* C28 (discuss mode): the step that stores the answer of a discuss
\* request leaves the code history and the currentIndex of every project
\* as they were immediately before.
DiscussStoreStep == lastOp'[1] = "discussResolved"

C28_DiscussKeepsHistory ==
    [][DiscussStoreStep =>
          \A id \in ProjIds :
             IsSome(projects[id]) =>
                /\ IsSome(projects'[id])
                /\ Val(projects'[id]).history = Val(projects[id]).history
                /\ Val(projects'[id]).currentIndex
                     = Val(projects[id]).currentIndex]_vars
\* ================================================================== C29
\* C29 (saved means committed): whenever the editor shows 'saved' and no
\* apply is in progress, the buffer of every file of the committed current
\* file set holds that file's content.
BufferCommitted ==
    \A k \in 1..Len(currentFiles) :
        /\ currentFiles[k].path \in DOMAIN editorContentRef
        /\ editorContentRef[currentFiles[k].path] = currentFiles[k].content

NoApply == aiTargetFiles = None /\ generationStatus = "idle"

C29_SavedMeansCommitted ==
    (mounted /\ saveStatus = "saved" /\ NoApply /\ IsSome(activeProject))
    => BufferCommitted

\* ================================================================== C30
\* C30 (auto-save): from every state in which the editor shows 'unsaved'
\* a state is reached in which it shows 'saved' and the buffers are
\* committed, unless the code view is closed or no further history entry
\* can be appended.
C30_UnsavedEventuallySaved ==
    (mounted /\ saveStatus = "unsaved")
    ~> \/ saveStatus = "saved" /\ BufferCommitted
       \/ ~mounted
       \/ BoundReached
====
